---- MODULE Spec2Model ----
(***************************************************************************)
(* A model of markdown-harvest: URL extraction and normalisation           *)
(* (http_client.rs, http_regex.rs), the blocking and the concurrent fetch  *)
(* paths, the four MarkdownHarvester operations (markdown_harvester.rs)    *)
(* and the Markdown clean-up pass (content_processor.rs, patterns.rs).     *)
(*                                                                         *)
(* A Rust String is a sequence of characters; a character is a one-letter  *)
(* TLA+ string (a non-ASCII letter is written by name, e.g. "e_acute").    *)
(* Option<T> is a sequence of length 0 (None) or 1 (Some(x)).              *)
(***************************************************************************)
EXTENDS Integers, Sequences, FiniteSets, TLC

VARIABLES
    \* ---- one call of a MarkdownHarvester operation
    op,            \* the operation called ("none" before the call)
    text,          \* its input text
    chunk_size,    \* chunk_size argument (chunk operations)
    chunk_overlap, \* chunk_overlap argument, an Option
    urls,          \* extract_urls(text)
    pc,            \* "idle", "loop" (blocking loop), "join" (join_all), "done"
    idx,           \* blocking loop: index of the next URL to request
    results,       \* blocking loop: Vec<(url, html)> built so far
    outcome,       \* per URL index: how its request ended ("pending" before)
    task,          \* per URL index: position of its async task
    sent,          \* URL indices in the order their requests were issued
    client_calls,  \* invocations of the callback handed to HttpClient
    calls,         \* invocations of the user's callback
    ret,           \* the value the operation returned
    stderr,        \* the lines written by eprintln!, in order
    \* ---- URL extraction on its own
    u_text, u_raw, u_clean, u_again, u_pc,
    \* ---- the Markdown clean-up pass on its own
    md_in, md_out, md_again, md_pc,
    \* ---- main-content selection on its own
    d_doc, d_out, d_pc,
    \* ---- HttpConfigBuilder, HttpConfig and the client built from it
    builder, setter_log, http_config, client, c_pc,
    \* ---- the request handlers of http_client.rs, seen from the wire
    f_path,        \* "none", "blocking" or "async"
    f_urls,        \* the urls argument
    user_agent,    \* let user_agent = UserAgent::random(), an Option
    requests,      \* the requests issued so far, each with its User-Agent
    f_task,        \* per URL index: position of its request (future)
    f_results,     \* blocking: indices whose (url, html) was pushed
    f_calls,       \* async: indices in the order the callback was invoked
    f_pc,          \* "off", "idle", "loop", "join", "done"
    \* ---- the line-level filter on its own
    l_lines,       \* the lines handed to remove_lines_metadata_or_navigation
    l_kept,        \* the lines it returned
    l_pc,          \* "off", "lines", "kept"
    \* ---- clear_content on its own
    a_html,        \* content_html, the fragment handed to clear_content
    a_cleaned,     \* cleaned_body after the regular-expression removals
    a_out,         \* the fragment clear_content returned
    a_pc           \* "off", "html", "cleaned", "out"

hvars == <<op, text, chunk_size, chunk_overlap, urls, pc, idx, results, outcome,
           task, sent, client_calls, calls, ret, stderr>>
uvars == <<u_text, u_raw, u_clean, u_again, u_pc>>
mvars == <<md_in, md_out, md_again, md_pc>>
dvars == <<d_doc, d_out, d_pc>>
cvars == <<builder, setter_log, http_config, client, c_pc>>
fvars == <<f_path, f_urls, user_agent, requests, f_task, f_results, f_calls, f_pc>>
lvars == <<l_lines, l_kept, l_pc>>
avars == <<a_html, a_cleaned, a_out, a_pc>>
vars == <<hvars, uvars, mvars, dvars, cvars, fvars, lvars, avars>>

(***************************************************************************)
(* Bounds of the model.                                                    *)
(***************************************************************************)
MaxTextTokens == 3
MaxChunk == 1
MaxUrlTokens == 4
MaxMdTokens == 5

(***************************************************************************)
(* Strings and options.                                                    *)
(***************************************************************************)
None == <<>>
Some(x) == <<x>>

RECURSIVE Concat(_)
Concat(ss) == IF ss = <<>> THEN <<>> ELSE Head(ss) \o Concat(Tail(ss))

\* All sequences of at most n elements of S.
RECURSIVE SeqUpTo(_, _)
SeqUpTo(S, n) ==
    IF n = 0 THEN {<<>>}
    ELSE LET shorter == SeqUpTo(S, n - 1)
         IN  shorter \cup {Append(s, x) : s \in {t \in shorter : Len(t) = n - 1}, x \in S}

\* s[i..j], empty when j < i.
Slice(s, i, j) == IF j < i THEN <<>> ELSE SubSeq(s, i, j)

\* Does the literal lit occur in s at position i?
StartsAt(s, i, lit) ==
    /\ i >= 1
    /\ i + Len(lit) - 1 <= Len(s)
    /\ \A k \in 1..Len(lit) : s[i + k - 1] = lit[k]

AsciiLower == {"a", "b", "c", "d", "e", "f", "g", "h", "i", "j", "k", "l", "m",
               "n", "o", "p", "q", "r", "s", "t", "u", "v", "w", "x", "y", "z"}
AsciiUpper == {"A", "B", "C", "D", "E", "F", "G", "H", "I", "J", "K", "L", "M",
               "N", "O", "P", "Q", "R", "S", "T", "U", "V", "W", "X", "Y", "Z"}
AsciiDigit == {"0", "1", "2", "3", "4", "5", "6", "7", "8", "9"}

(***************************************************************************)
(* URL_REGEX (http_regex.rs): the scheme http:// or https://, one or more  *)
(* path characters [a-zA-Z0-9._/%+()-], any number of groups of a '/' and  *)
(* path characters, and optionally a '?' with query characters (the path   *)
(* characters and '=', '&').                                               *)
(***************************************************************************)
UrlPathChar(c) ==
    c \in AsciiLower \cup AsciiUpper \cup AsciiDigit \cup {".", "_", "/", "%", "+", "(", ")", "-"}

UrlQueryChar(c) == UrlPathChar(c) \/ c \in {"=", "&"}

\* Last index of the maximal run of characters satisfying the class that
\* starts at i (i - 1 when s[i] is not in the class).
RECURSIVE PathRunEnd(_, _)
PathRunEnd(s, i) ==
    IF i <= Len(s) /\ UrlPathChar(s[i]) THEN PathRunEnd(s, i + 1) ELSE i - 1

RECURSIVE QueryRunEnd(_, _)
QueryRunEnd(s, i) ==
    IF i <= Len(s) /\ UrlQueryChar(s[i]) THEN QueryRunEnd(s, i + 1) ELSE i - 1

\* Index after the scheme "http://" or "https://" starting at i, 0 if none.
SchemeEnd(s, i) ==
    IF StartsAt(s, i, <<"h", "t", "t", "p", "s", ":", "/", "/">>) THEN i + 8
    ELSE IF StartsAt(s, i, <<"h", "t", "t", "p", ":", "/", "/">>) THEN i + 7
    ELSE 0

\* Last index of the match of URL_REGEX that starts at i, 0 if there is none.
\* The greedy path run also consumes every '/', so the slash groups add
\* nothing; the optional query part is taken whenever a '?' follows.
UrlMatchEnd(s, i) ==
    LET p == SchemeEnd(s, i) IN
    IF p = 0 THEN 0
    ELSE LET e == PathRunEnd(s, p) IN
         IF e < p THEN 0
         ELSE IF e + 1 <= Len(s) /\ s[e + 1] = "?" THEN QueryRunEnd(s, e + 2)
         ELSE e

MatchStartsFrom(s, i) == {j \in i..Len(s) : UrlMatchEnd(s, j) # 0}

UrlFindIter_first_mut(s, i) ==
    LET st == MatchStartsFrom(s, i) IN
    IF st = {} THEN <<>>
    ELSE LET j == CHOOSE x \in st : \A y \in st : x <= y
         IN  <<SubSeq(s, j, UrlMatchEnd(s, j))>>

\* URL_REGEX.find_iter(text): the non-overlapping matches, left to right.
RECURSIVE UrlFindIter(_, _)
UrlFindIter(s, i) ==
    IF i > Len(s) THEN <<>>
    ELSE LET e == UrlMatchEnd(s, i) IN
         IF e = 0 THEN UrlFindIter(s, i + 1)
         ELSE <<SubSeq(s, i, e)>> \o UrlFindIter(s, e + 1)

(***************************************************************************)
(* clean_url (http_client.rs).                                             *)
(***************************************************************************)
CountChar(s, c) == Cardinality({k \in 1..Len(s) : s[k] = c})

RECURSIVE TrimEndMatches(_, _)
TrimEndMatches(s, set) ==
    IF s # <<>> /\ s[Len(s)] \in set THEN TrimEndMatches(SubSeq(s, 1, Len(s) - 1), set)
    ELSE s

TrimBalanced == {".", ",", ";", "!", "?", "]", "}"}
TrimUnbalanced == {".", ",", ";", "!", "?", ")", "]", "}"}

StripOneSuffix(s, set) ==
    IF s # <<>> /\ s[Len(s)] \in set THEN SubSeq(s, 1, Len(s) - 1) ELSE s

clean_url_mut(url) ==
    IF CountChar(url, "(") = CountChar(url, ")")
    THEN StripOneSuffix(url, TrimBalanced)
    ELSE StripOneSuffix(url, TrimUnbalanced)

clean_url_any_paren_mut(url) == TrimEndMatches(url, TrimUnbalanced)

clean_url(url) ==
    LET open_parens == CountChar(url, "(")
        close_parens == CountChar(url, ")")
    IN  IF open_parens = close_parens
        THEN TrimEndMatches(url, TrimBalanced)
        ELSE TrimEndMatches(url, TrimUnbalanced)

MapCleanUrl(ms) == [k \in 1..Len(ms) |-> clean_url(ms[k])]

extract_urls(t) == MapCleanUrl(UrlFindIter(t, 1))

(***************************************************************************)
(* The HTTP transport, seen from the fetch loops: how one request ends.    *)
(*   "ok"          send() is Ok, the status is a success, text() is Ok     *)
(*   "ok_empty"    the same, and the body is the empty string              *)
(*   "status"      send() is Ok with a non-success status (reqwest does    *)
(*                 not make it an error), text() is Ok(the error page)     *)
(*   "decode_err"  send() is Ok, text() is Err                             *)
(*   "send_err"    send() is Err (connection failure, timeout, redirects)  *)
(***************************************************************************)
Outcomes == {"ok", "ok_empty", "status", "decode_err", "send_err"}
SendOk(o) == o \in {"ok", "ok_empty", "status", "decode_err"}
TextOk(o) == o \in {"ok", "ok_empty", "status"}

\* The strings a request can hand on, as terms over the URL.
EmptyString(url) == [kind |-> "empty", url |-> <<>>]
ResponseText(url, o) ==
    IF o = "ok_empty" THEN EmptyString(url)
    ELSE [kind |-> IF o = "ok" THEN "page" ELSE "error_page", url |-> url]
ErrorText(url) == [kind |-> "error_text", url |-> url]

\* One step of the pipeline applied to its input, as a term.
Step(name, input) == [kind |-> name, of |-> input]

extract_and_clean_content_swapped_mut(html) ==
    LET document == Step("parse_document", html)
        relevant_html == Step("clear_content", document)
        extracted_html == Step("extract_main_content", relevant_html)
        markdown_content == Step("parse_html", extracted_html)
    IN  Step("final_clean_from_markdown", markdown_content)

\* extract_and_clean_content: each statement consumes what the one before
\* it produced. (The early return on an empty extraction yields the empty
\* string, which is also what the remaining steps make of it.)
extract_and_clean_content(html) ==
    LET document == Step("parse_document", html)
        extracted_html == Step("extract_main_content", document)
        relevant_html == Step("clear_content", extracted_html)
        markdown_content == Step("parse_html", relevant_html)
    IN  Step("final_clean_from_markdown", markdown_content)

\* ContentProcessor::html_to_markdown
html_to_markdown(html) == extract_and_clean_content(html)

(***************************************************************************)
(* handles_http_requests_results: one iteration of the blocking loop.      *)
(***************************************************************************)
blocking_request_mut(res, url, o) ==
    IF SendOk(o)
    THEN Append(res, <<url, IF TextOk(o) THEN ResponseText(url, o) ELSE EmptyString(url)>>)
    ELSE res

blocking_request(res, url, o) ==
    IF SendOk(o)
    THEN IF TextOk(o) THEN Append(res, <<url, ResponseText(url, o)>>) ELSE res
    ELSE res

\* One line of eprintln!, without the values formatted into it other than
\* the URL.
Eprintln(message, url) == [message |-> message, url |-> url]

\* What the same iteration writes to stderr.
blocking_request_stderr(url, o) ==
    IF SendOk(o)
    THEN IF TextOk(o) THEN <<>> ELSE << Eprintln("Error reading content from", url) >>
    ELSE << Eprintln("Error accessing", url) >>

(***************************************************************************)
(* handles_http_requests_results_async: what one request task passes to    *)
(* the callback when its request has ended, as the list of invocations.    *)
(***************************************************************************)
async_request_calls_mut(url, o) ==
    IF SendOk(o)
    THEN << [url |-> Some(url),
             payload |-> Some(IF TextOk(o) THEN ResponseText(url, o) ELSE EmptyString(url))] >>
    ELSE <<>>

async_request_calls(url, o) ==
    IF SendOk(o)
    THEN << [url |-> Some(url),
             payload |-> Some(IF TextOk(o) THEN ResponseText(url, o) ELSE EmptyString(url))] >>
    ELSE << [url |-> Some(url), payload |-> Some(ErrorText(url))] >>

(***************************************************************************)
(* The chunk operations (markdown_harvester.rs).                           *)
(***************************************************************************)
\* ChunkConfig::new(chunk_size).with_overlap(overlap): Err when the overlap
\* is not smaller than the capacity.
with_overlap(size, overlap) ==
    IF overlap >= size THEN [ok |-> FALSE, size |-> size, overlap |-> 0]
    ELSE [ok |-> TRUE, size |-> size, overlap |-> overlap]

ChunkConfig_new(size) == [ok |-> TRUE, size |-> size, overlap |-> 0]

\* splitter.chunks(markdown) collected, as a term.
splitter_chunks(config, markdown) ==
    [kind |-> "chunks", size |-> config.size, overlap |-> config.overlap, md |-> markdown]

overlap_invalid_mut(size, overlap) == overlap # None /\ size >= overlap[1]

\* if let Some(overlap) = chunk_overlap { if overlap >= chunk_size {...} }
overlap_invalid(size, overlap) == overlap # None /\ overlap[1] >= size

chunk_all_first_mut(config, markdown_results) ==
    [k \in 1..Len(markdown_results) |->
        <<markdown_results[k][1], splitter_chunks(config, markdown_results[1][2])>>]

chunk_all(config, markdown_results) ==
    [k \in 1..Len(markdown_results) |->
        <<markdown_results[k][1], splitter_chunks(config, markdown_results[k][2])>>]

as_chunks_result_mut(markdown_results, size, overlap) ==
    IF markdown_results = <<>> THEN <<>>
    ELSE LET config == IF overlap = None THEN ChunkConfig_new(size)
                       ELSE with_overlap(size, overlap[1])
         IN  chunk_all(IF config.ok THEN config ELSE ChunkConfig_new(size), markdown_results)

OverlapWarning ==
    Eprintln("Warning: chunk_overlap must be smaller than chunk_size", <<>>)
ChunkConfigFailure == Eprintln("Failed to create ChunkConfig with overlap", <<>>)

\* What get_hyperlinks_content_as_chunks writes to stderr after
\* get_hyperlinks_content returned.
as_chunks_stderr(markdown_results, size, overlap) ==
    IF markdown_results = <<>> THEN <<>>
    ELSE IF overlap_invalid(size, overlap) THEN <<OverlapWarning>>
    ELSE LET config == IF overlap = None THEN ChunkConfig_new(size)
                       ELSE with_overlap(size, overlap[1])
         IN  IF ~config.ok THEN <<ChunkConfigFailure>> ELSE <<>>

\* get_hyperlinks_content_as_chunks, after get_hyperlinks_content returned.
as_chunks_result(markdown_results, size, overlap) ==
    IF markdown_results = <<>> THEN <<>>
    ELSE IF overlap_invalid(size, overlap) THEN <<>>
    ELSE LET config == IF overlap = None THEN ChunkConfig_new(size)
                       ELSE with_overlap(size, overlap[1])
         IN  IF ~config.ok THEN <<>> ELSE chunk_all(config, markdown_results)

\* get_hyperlinks_content, after fetch_content_from_text returned.
markdown_results_of(html_results) ==
    IF html_results = <<>> THEN <<>>
    ELSE [k \in 1..Len(html_results) |->
            <<html_results[k][1], html_to_markdown(html_results[k][2])>>]

(***************************************************************************)
(* The closures of the streaming operations: the invocations of the next   *)
(* callback that one invocation (url, content) makes.                      *)
(***************************************************************************)
\* The closure get_hyperlinks_content_async hands to HttpClient.
content_async_closure(url, content) ==
    IF url # None /\ content # None
    THEN << [url |-> Some(url[1]), payload |-> Some(html_to_markdown(content[1]))] >>
    ELSE <<>>

as_chunks_async_closure_mut(url, content, size, overlap) ==
    IF url # None /\ content # None
    THEN LET config == IF overlap = None THEN ChunkConfig_new(size)
                       ELSE with_overlap(size, overlap[1])
         IN  << [url |-> Some(url[1]),
                 payload |-> Some(splitter_chunks(IF config.ok THEN config
                                                  ELSE ChunkConfig_new(size), content[1]))] >>
    ELSE IF url = None /\ content = None
    THEN << [url |-> None, payload |-> None] >>
    ELSE <<>>

as_chunks_async_closure_none_mut(url, content, size, overlap) ==
    IF url # None /\ content # None
    THEN IF overlap_invalid(size, overlap) THEN << [url |-> Some(url[1]), payload |-> None] >>
         ELSE LET config == IF overlap = None THEN ChunkConfig_new(size)
                            ELSE with_overlap(size, overlap[1])
              IN  IF ~config.ok THEN <<>>
                  ELSE << [url |-> Some(url[1]),
                           payload |-> Some(splitter_chunks(config, content[1]))] >>
    ELSE IF url = None /\ content = None
    THEN << [url |-> None, payload |-> None] >>
    ELSE <<>>

\* The closure get_hyperlinks_content_as_chunks_async hands to
\* get_hyperlinks_content_async.
as_chunks_async_closure(url, content, size, overlap) ==
    IF url # None /\ content # None
    THEN IF overlap_invalid(size, overlap) THEN <<>>
         ELSE LET config == IF overlap = None THEN ChunkConfig_new(size)
                            ELSE with_overlap(size, overlap[1])
              IN  IF ~config.ok THEN <<>>
                  ELSE << [url |-> Some(url[1]),
                           payload |-> Some(splitter_chunks(config, content[1]))] >>
    ELSE IF url = None /\ content = None
    THEN << [url |-> None, payload |-> None] >>
    ELSE <<>>

\* What the closure of get_hyperlinks_content_as_chunks_async writes to
\* stderr in one invocation.
as_chunks_async_closure_stderr(url, content, size, overlap) ==
    IF url # None /\ content # None
    THEN IF overlap_invalid(size, overlap) THEN <<OverlapWarning>>
         ELSE LET config == IF overlap = None THEN ChunkConfig_new(size)
                            ELSE with_overlap(size, overlap[1])
              IN  IF ~config.ok THEN <<ChunkConfigFailure>> ELSE <<>>
    ELSE <<>>

RECURSIVE ThroughChunksStderr(_, _, _)
ThroughChunksStderr(invs, size, overlap) ==
    IF invs = <<>> THEN <<>>
    ELSE as_chunks_async_closure_stderr(Head(invs).url, Head(invs).payload, size, overlap)
         \o ThroughChunksStderr(Tail(invs), size, overlap)

\* What one invocation (url, content) of the callback handed to HttpClient
\* writes to stderr.
closures_stderr(o, url, content, size, overlap) ==
    IF o = "as_chunks_async"
    THEN ThroughChunksStderr(content_async_closure(url, content), size, overlap)
    ELSE <<>>

RECURSIVE ThroughChunks(_, _, _)
ThroughChunks(invs, size, overlap) ==
    IF invs = <<>> THEN <<>>
    ELSE as_chunks_async_closure(Head(invs).url, Head(invs).payload, size, overlap)
         \o ThroughChunks(Tail(invs), size, overlap)

\* The invocations of the user's callback made by one invocation (url,
\* content) of the callback handed to HttpClient.
user_invocations(o, url, content, size, overlap) ==
    IF o = "urls_async" THEN << [url |-> url, payload |-> content] >>
    ELSE IF o = "content_async" THEN content_async_closure(url, content)
    ELSE ThroughChunks(content_async_closure(url, content), size, overlap)

Tag(k, invs) == [j \in 1..Len(invs) |-> [k |-> k, url |-> invs[j].url, payload |-> invs[j].payload]]

(***************************************************************************)
(* Inputs.                                                                 *)
(***************************************************************************)
Url_a == <<"h", "t", "t", "p", ":", "/", "/", "a">>
Url_b_paren == <<"h", "t", "t", "p", "s", ":", "/", "/", "b", ")">>
TextTokens == {Url_a, <<" ">>, Url_b_paren}
Texts == {Concat(ts) : ts \in SeqUpTo(TextTokens, MaxTextTokens)}
\* The chunk operations only compare the overlap with the size and hand both
\* on: two neighbouring values give an overlap below, at and above the size.
ChunkSizes == (MaxChunk - 1)..MaxChunk
ChunkOverlaps == {None} \cup {Some(n) : n \in (MaxChunk - 1)..MaxChunk}

Vec(v) == [tag |-> "vec", val |-> v]
Ok == [tag |-> "ok", val |-> <<>>]
NotReturned == [tag |-> "none", val |-> <<>>]

BlockingOps == {"content", "as_chunks"}
AsyncOps == {"content_async", "as_chunks_async"}

(***************************************************************************)
(* The harvester: one call of one operation.                               *)
(***************************************************************************)
HInit ==
    /\ op = "none" /\ text = <<>> /\ chunk_size = 0 /\ chunk_overlap = None
    /\ urls = <<>> /\ pc = "idle" /\ idx = 0 /\ results = <<>>
    /\ outcome = <<>> /\ task = <<>> /\ sent = <<>>
    /\ client_calls = <<>> /\ calls = <<>> /\ ret = NotReturned /\ stderr = <<>>

StartBlocking_validate_first_mut(o, t, size, overlap) ==
    LET us == extract_urls(t)
        invalid == o = "as_chunks" /\ overlap_invalid(size, overlap)
    IN
    /\ pc = "idle"
    /\ op' = o /\ text' = t /\ chunk_size' = size /\ chunk_overlap' = overlap
    /\ urls' = us
    /\ outcome' = [k \in 1..Len(us) |-> "pending"]
    /\ task' = [k \in 1..Len(us) |-> "none"]
    /\ results' = <<>>
    /\ IF us = <<>> \/ invalid
       THEN /\ pc' = "done" /\ idx' = 0
            /\ ret' = Vec(<<>>)
            /\ stderr' = IF invalid THEN <<OverlapWarning>> ELSE <<>>
       ELSE /\ pc' = "loop" /\ idx' = 1 /\ ret' = ret /\ stderr' = stderr
    /\ UNCHANGED <<sent, client_calls, calls>>

\* fetch_content_from_text: extract the URLs, return at once when there are
\* none, otherwise enter the loop of handles_http_requests_results.
StartBlocking(o, t, size, overlap) ==
    LET us == extract_urls(t) IN
    /\ pc = "idle"
    /\ op' = o /\ text' = t /\ chunk_size' = size /\ chunk_overlap' = overlap
    /\ urls' = us
    /\ outcome' = [k \in 1..Len(us) |-> "pending"]
    /\ task' = [k \in 1..Len(us) |-> "none"]
    /\ results' = <<>>
    /\ IF us = <<>>
       THEN /\ pc' = "done" /\ idx' = 0
            /\ ret' = Vec(IF o = "content" THEN markdown_results_of(<<>>)
                          ELSE as_chunks_result(markdown_results_of(<<>>), size, overlap))
            /\ stderr' = IF o = "content" THEN <<>>
                         ELSE as_chunks_stderr(markdown_results_of(<<>>), size, overlap)
       ELSE /\ pc' = "loop" /\ idx' = 1 /\ ret' = ret /\ stderr' = stderr
    /\ UNCHANGED <<sent, client_calls, calls>>

get_hyperlinks_content ==
    \E t \in Texts : StartBlocking("content", t, 0, None)

get_hyperlinks_content_as_chunks ==
    \E t \in Texts, size \in ChunkSizes, overlap \in ChunkOverlaps :
        StartBlocking("as_chunks", t, size, overlap)

\* One iteration of the loop over urls: the request is sent and ends.
BlockingRequest ==
    /\ pc = "loop" /\ idx <= Len(urls)
    /\ \E o \in Outcomes :
        /\ results' = blocking_request(results, urls[idx], o)
        /\ stderr' = stderr \o blocking_request_stderr(urls[idx], o)
        /\ outcome' = [outcome EXCEPT ![idx] = o]
    /\ sent' = Append(sent, idx)
    /\ idx' = idx + 1
    /\ UNCHANGED <<op, text, chunk_size, chunk_overlap, urls, pc, task,
                   client_calls, calls, ret>>

\* The loop is over: the results go back up to the operation, which
\* converts (and chunks) them and returns.
BlockingReturn ==
    /\ pc = "loop" /\ idx > Len(urls)
    /\ ret' = Vec(IF op = "content" THEN markdown_results_of(results)
                  ELSE as_chunks_result(markdown_results_of(results),
                                        chunk_size, chunk_overlap))
    /\ stderr' = stderr \o (IF op = "content" THEN <<>>
                            ELSE as_chunks_stderr(markdown_results_of(results),
                                                  chunk_size, chunk_overlap))
    /\ pc' = "done"
    /\ UNCHANGED <<op, text, chunk_size, chunk_overlap, urls, idx, results,
                   outcome, task, sent, client_calls, calls>>

no_url_calls_mut(us) == <<>>

\* fetch_content_from_text_async: if urls.is_empty() { future(None, None) }
no_url_calls(us) == IF us = <<>> THEN << [url |-> None, payload |-> None] >> ELSE <<>>

\* fetch_content_from_text_async: with no URL, future(None, None) and
\* return; otherwise one request task per URL, all polled by join_all.
StartAsync(o, t, size, overlap) ==
    LET us == extract_urls(t) IN
    /\ pc = "idle"
    /\ op' = o /\ text' = t /\ chunk_size' = size /\ chunk_overlap' = overlap
    /\ urls' = us
    /\ outcome' = [k \in 1..Len(us) |-> "pending"]
    /\ task' = [k \in 1..Len(us) |-> "send"]
    /\ sent' = [k \in 1..Len(us) |-> k]
    /\ IF us = <<>>
       THEN /\ client_calls' = Tag(0, no_url_calls(us))
            /\ calls' = Tag(0, IF no_url_calls(us) = <<>> THEN <<>>
                               ELSE user_invocations(o, None, None, size, overlap))
            /\ pc' = "done" /\ ret' = Ok
       ELSE /\ pc' = "join"
            /\ UNCHANGED <<client_calls, calls, ret>>
    /\ UNCHANGED <<idx, results, stderr>>

get_hyperlinks_content_async ==
    \E t \in Texts : StartAsync("content_async", t, 0, None)

get_hyperlinks_content_as_chunks_async ==
    \E t \in Texts, size \in ChunkSizes, overlap \in ChunkOverlaps :
        StartAsync("as_chunks_async", t, size, overlap)

\* fetch_content_from_urls_async, called with a list of URLs: straight to
\* handles_http_requests_results_async, one request task per URL (none for
\* an empty list), all polled by join_all. The callback is the caller's.
UrlLists == {extract_urls(t) : t \in Texts}

fetch_content_from_urls_async ==
    \E us \in UrlLists :
        /\ pc = "idle"
        /\ op' = "urls_async" /\ text' = <<>> /\ chunk_size' = 0 /\ chunk_overlap' = None
        /\ urls' = us
        /\ outcome' = [k \in 1..Len(us) |-> "pending"]
        /\ task' = [k \in 1..Len(us) |-> "send"]
        /\ sent' = [k \in 1..Len(us) |-> k]
        /\ pc' = "join"
        /\ UNCHANGED <<idx, results, client_calls, calls, ret, stderr>>

\* Task k calls future(url, content): the closures run up to the user's
\* callback, whose future is then pending (or the task is over when no
\* user callback was started).
Invoke(k, invs) ==
    LET user == IF invs = <<>> THEN <<>>
                ELSE user_invocations(op, invs[1].url, invs[1].payload,
                                      chunk_size, chunk_overlap)
    IN  /\ client_calls' = client_calls \o Tag(k, invs)
        /\ calls' = calls \o Tag(k, user)
        /\ stderr' = stderr \o (IF invs = <<>> THEN <<>>
                                ELSE closures_stderr(op, invs[1].url, invs[1].payload,
                                                     chunk_size, chunk_overlap))
        /\ task' = [task EXCEPT ![k] = IF user = <<>> THEN "done" ELSE "callback"]

\* send().await of task k ends: with an error, or with a response whose
\* body is still to be read.
Respond(k) ==
    /\ pc = "join" /\ task[k] = "send"
    /\ \E o \in {"ok", "ok_empty", "status", "send_err"} :
        /\ outcome' = [outcome EXCEPT ![k] = o]
        /\ IF SendOk(o)
           THEN /\ task' = [task EXCEPT ![k] = "text"]
                /\ UNCHANGED <<client_calls, calls, stderr>>
           ELSE Invoke(k, async_request_calls(urls[k], o))
    /\ UNCHANGED <<op, text, chunk_size, chunk_overlap, urls, pc, idx, results,
                   sent, ret>>

\* response.text().await of task k ends, Ok or Err (unwrap_or_default).
ReadBody(k) ==
    /\ pc = "join" /\ task[k] = "text"
    /\ \E o \in {outcome[k], "decode_err"} :
        /\ outcome' = [outcome EXCEPT ![k] = o]
        /\ Invoke(k, async_request_calls(urls[k], o))
    /\ UNCHANGED <<op, text, chunk_size, chunk_overlap, urls, pc, idx, results,
                   sent, ret>>

\* The user's callback future of task k completes.
CallbackReturns(k) ==
    /\ pc = "join" /\ task[k] = "callback"
    /\ task' = [task EXCEPT ![k] = "done"]
    /\ UNCHANGED <<op, text, chunk_size, chunk_overlap, urls, pc, idx, results,
                   outcome, sent, client_calls, calls, ret, stderr>>

JoinAll_any_mut ==
    /\ pc = "join"
    /\ \E k \in 1..Len(urls) : task[k] = "done"
    /\ pc' = "done" /\ ret' = Ok
    /\ UNCHANGED <<op, text, chunk_size, chunk_overlap, urls, idx, results,
                   outcome, task, sent, client_calls, calls, stderr>>

\* join_all is ready when every task is; the operation returns Ok(()).
JoinAll ==
    /\ pc = "join"
    /\ \A k \in 1..Len(urls) : task[k] = "done"
    /\ pc' = "done" /\ ret' = Ok
    /\ UNCHANGED <<op, text, chunk_size, chunk_overlap, urls, idx, results,
                   outcome, task, sent, client_calls, calls, stderr>>

UIdle == u_text = <<>> /\ u_raw = <<>> /\ u_clean = <<>> /\ u_again = <<>> /\ u_pc = "off"
MIdle == md_in = <<>> /\ md_out = <<>> /\ md_again = <<>> /\ md_pc = "off"
HIdle == HInit
DIdle == d_doc = <<>> /\ d_out = <<>> /\ d_pc = "off"
CIdle ==
    /\ builder = <<>> /\ setter_log = <<>> /\ http_config = <<>>
    /\ client = <<>> /\ c_pc = "off"
FIdle ==
    /\ f_path = "none" /\ f_urls = <<>> /\ user_agent = <<>> /\ requests = <<>>
    /\ f_task = <<>> /\ f_results = <<>> /\ f_calls = <<>> /\ f_pc = "off"
LIdle == l_lines = <<>> /\ l_kept = <<>> /\ l_pc = "off"
AIdle == a_html = <<>> /\ a_cleaned = <<>> /\ a_out = <<>> /\ a_pc = "off"

Init == HInit /\ UIdle /\ MIdle /\ DIdle /\ CIdle /\ FIdle /\ LIdle /\ AIdle

Next ==
    \/ get_hyperlinks_content /\ UNCHANGED <<uvars, mvars, dvars, cvars, fvars, lvars, avars>>
    \/ get_hyperlinks_content_as_chunks /\ UNCHANGED <<uvars, mvars, dvars, cvars, fvars, lvars, avars>>
    \/ BlockingRequest /\ UNCHANGED <<uvars, mvars, dvars, cvars, fvars, lvars, avars>>
    \/ BlockingReturn /\ UNCHANGED <<uvars, mvars, dvars, cvars, fvars, lvars, avars>>
    \/ get_hyperlinks_content_async /\ UNCHANGED <<uvars, mvars, dvars, cvars, fvars, lvars, avars>>
    \/ get_hyperlinks_content_as_chunks_async /\ UNCHANGED <<uvars, mvars, dvars, cvars, fvars, lvars, avars>>
    \/ fetch_content_from_urls_async /\ UNCHANGED <<uvars, mvars, dvars, cvars, fvars, lvars, avars>>
    \/ \E k \in 1..Len(urls) : Respond(k) /\ UNCHANGED <<uvars, mvars, dvars, cvars, fvars, lvars, avars>>
    \/ \E k \in 1..Len(urls) : ReadBody(k) /\ UNCHANGED <<uvars, mvars, dvars, cvars, fvars, lvars, avars>>
    \/ \E k \in 1..Len(urls) : CallbackReturns(k) /\ UNCHANGED <<uvars, mvars, dvars, cvars, fvars, lvars, avars>>
    \/ JoinAll /\ UNCHANGED <<uvars, mvars, dvars, cvars, fvars, lvars, avars>>

Spec == Init /\ [][Next]_vars

(***************************************************************************)
(* Properties of the harvester operations.                                 *)
(***************************************************************************)
OverlapNotSmaller == chunk_overlap # None /\ chunk_overlap[1] >= chunk_size
Sentinel == [k |-> 0, url |-> None, payload |-> None]
ClientCallsOf(k) == {j \in 1..Len(client_calls) : client_calls[j].k = k}
UserCallsOf(k) == {j \in 1..Len(calls) : calls[j].k = k}
Fetched == {k \in 1..Len(urls) : outcome[k] \in {"ok", "ok_empty", "status"}}

\* The subsequence of the URLs from index k on whose request ended with a
\* response and a readable body.
RECURSIVE FetchedUrlsFrom(_)
FetchedUrlsFrom(k) ==
    IF k > Len(urls) THEN <<>>
    ELSE (IF outcome[k] \in {"ok", "ok_empty", "status"} THEN <<urls[k]>> ELSE <<>>)
         \o FetchedUrlsFrom(k + 1)

\* C1: when the text has no URL, a streaming operation has invoked the
\* user's callback exactly once, with (None, None), when it returns.
C1_NoUrlSentinelOnce ==
    (pc = "done" /\ op \in AsyncOps /\ urls = <<>>) => calls = <<Sentinel>>

\* C2: a streaming operation delivers (Some(url), Some(content)) only for a
\* URL whose fetch succeeded, and get_hyperlinks_content_async has delivered
\* exactly one record per successfully fetched URL when it returns.
C2_RecordsOnlyForFetched ==
    op \in AsyncOps =>
        /\ \A j \in 1..Len(calls) : calls[j].url # None => calls[j].k \in Fetched
        /\ (pc = "done" /\ op = "content_async") =>
              \A k \in 1..Len(urls) :
                  Cardinality(UserCallsOf(k)) = (IF k \in Fetched THEN 1 ELSE 0)

\* C3: with at least one URL, the streaming fetch invokes its callback at
\* most once per URL occurrence at any time, with that URL, never with the
\* sentinel, and exactly once per URL occurrence by the time it returns,
\* however each request ended.
C3_OneCallbackPerUrl ==
    (op \in AsyncOps /\ urls # <<>>) =>
        /\ \A j \in 1..Len(client_calls) :
              /\ client_calls[j].k \in 1..Len(urls)
              /\ client_calls[j].url = Some(urls[client_calls[j].k])
              /\ client_calls[j].payload # None
        /\ \A k \in 1..Len(urls) :
              /\ Cardinality(ClientCallsOf(k)) <= 1
              /\ task[k] \in {"send", "text"} => ClientCallsOf(k) = {}
              /\ pc = "done" => Cardinality(ClientCallsOf(k)) = 1

\* Two URLs, the first failed and the second fetched, the second's callback
\* ran first, and both callbacks have run.
C3_Witness ==
    /\ pc = "done" /\ op = "content_async" /\ Len(urls) = 2
    /\ outcome[1] = "send_err" /\ outcome[2] = "ok"
    /\ Len(client_calls) = 2 /\ client_calls[1].k = 2 /\ client_calls[2].k = 1

\* C4: the sequential harvest requests every URL once, in order, whatever
\* the earlier requests did, and returns the records of exactly the URLs
\* whose fetch succeeded, in input order; with no URL it requests nothing
\* and returns the empty list.
C4_SequentialRecords ==
    op = "content" =>
        /\ sent = [k \in 1..Len(sent) |-> k]
        /\ pc = "done" =>
              /\ ret.tag = "vec"
              /\ Len(sent) = Len(urls)
              /\ [j \in 1..Len(ret.val) |-> ret.val[j][1]] = FetchedUrlsFrom(1)

C4_Witness ==
    /\ pc = "done" /\ op = "content" /\ Len(urls) = 2
    /\ outcome[1] = "send_err" /\ outcome[2] = "ok"
    /\ Len(ret.val) = 1 /\ ret.val[1][1] = urls[2]

\* C5: in the sequential harvest a URL answered with a non-success status
\* has no record: the records are as many as the URLs answered with a
\* success status.
C5_NonSuccessStatusExcluded ==
    (pc = "done" /\ op = "content") =>
        Len(ret.val) = Cardinality({k \in 1..Len(urls) : outcome[k] \in {"ok", "ok_empty"}})

\* C6: get_hyperlinks_content_as_chunks returns normally; with an overlap
\* not smaller than chunk_size its result is empty, otherwise it has one
\* entry per successfully fetched URL.
C6_ChunksOverlapValidation ==
    (pc = "done" /\ op = "as_chunks") =>
        /\ ret.tag = "vec"
        /\ IF OverlapNotSmaller THEN ret.val = <<>>
           ELSE [j \in 1..Len(ret.val) |-> ret.val[j][1]] = FetchedUrlsFrom(1)

\* An invalid overlap met a successfully fetched URL.
C6_Witness ==
    /\ pc = "done" /\ op = "as_chunks" /\ OverlapNotSmaller
    /\ \E k \in 1..Len(urls) : outcome[k] = "ok"

\* C7: get_hyperlinks_content_as_chunks_async with an overlap not smaller
\* than chunk_size never invokes the user's callback with a URL, and
\* returns Ok.
C7_AsyncChunksOverlapValidation ==
    (op = "as_chunks_async" /\ OverlapNotSmaller) =>
        /\ \A j \in 1..Len(calls) : calls[j].url = None
        /\ pc = "done" => ret = Ok

C7_Witness ==
    /\ pc = "done" /\ op = "as_chunks_async" /\ OverlapNotSmaller
    /\ \E k \in 1..Len(urls) : outcome[k] = "ok"

\* C16: every invocation of the user's callback by a streaming operation
\* of the harvester carries a URL and a payload, or neither.
C16_CallbackPairShape ==
    op \in AsyncOps =>
        \A j \in 1..Len(calls) : (calls[j].url = None) <=> (calls[j].payload = None)

\* The chunk operation has returned after two invocations of the user's
\* callback, one of them for a failed request.
C16_Witness ==
    /\ pc = "done" /\ op = "as_chunks_async"
    /\ Len(calls) = 2
    /\ \E k \in 1..Len(urls) : outcome[k] = "send_err"

\* The steps a streaming operation still has to take before it has
\* returned: per request task, the response, the body and the callback.
TaskStepsLeft(t) ==
    CASE t = "send" -> 3 [] t = "text" -> 2 [] t = "callback" -> 1 [] OTHER -> 0

RECURSIVE SumStepsLeft(_, _)
SumStepsLeft(ts, k) == IF k > Len(ts) THEN 0 ELSE TaskStepsLeft(ts[k]) + SumStepsLeft(ts, k + 1)

StepsLeft(p, ts) == (IF p = "done" THEN 0 ELSE 1) + SumStepsLeft(ts, 1)

FewerStepsLeft == op \in AsyncOps => (StepsLeft(pc', task') < StepsLeft(pc, task))

\* C17: a streaming operation of the harvester always comes to return (as
\* long as it has not returned a step is possible, and every step leaves
\* fewer steps to take), it returns Ok(()) whatever the outcomes of the
\* requests were, and when it returns the callback of every URL has been
\* invoked and has completed.
C17_StreamingReturnsOk ==
    /\ [](op \in AsyncOps =>
            /\ pc # "done" => (ret = NotReturned /\ ENABLED (Next /\ hvars' # hvars))
            /\ pc = "done" =>
                  /\ ret = Ok
                  /\ \A k \in 1..Len(urls) :
                        task[k] = "done" /\ ClientCallsOf(k) # {})
    /\ [][FewerStepsLeft]_hvars

\* Returned Ok(()) although no request of two got a readable response.
C17_Witness ==
    /\ pc = "done" /\ op \in AsyncOps /\ ret = Ok
    /\ Len(urls) = 2
    /\ outcome[1] = "send_err" /\ outcome[2] = "decode_err"

\* The index of the j-th URL whose request ended with a readable response.
KthFetched(j) ==
    CHOOSE k \in Fetched : Cardinality({i \in Fetched : i < k}) = j - 1

\* C18: with an overlap that is absent or smaller than the chunk size, the
\* chunk operation returns one entry per record that the plain harvest
\* returns for the same request outcomes (one per fetched URL, in input
\* order), with that record's URL and with chunks made from that record's
\* Markdown alone.
C18_ChunksRefineRecords ==
    (pc = "done" /\ op = "as_chunks" /\ ~OverlapNotSmaller) =>
        /\ Len(ret.val) = Cardinality(Fetched)
        /\ \A j \in 1..Len(ret.val) :
              LET k == KthFetched(j) IN
              /\ ret.val[j][1] = urls[k]
              /\ ret.val[j][2].kind = "chunks"
              /\ ret.val[j][2].md = html_to_markdown(ResponseText(urls[k], outcome[k]))

\* Two different pages fetched and chunked with an overlap below the size.
C18_Witness ==
    /\ pc = "done" /\ op = "as_chunks"
    /\ chunk_overlap # None /\ chunk_overlap[1] < chunk_size
    /\ Len(ret.val) = 2 /\ ret.val[1][1] # ret.val[2][1]

\* A String is empty: the empty body and the Markdown made from it. A page
\* without any text leaves nothing after the final trim.
is_empty(str) ==
    CASE str.kind = "empty" -> TRUE
      [] str.kind = "final_clean_from_markdown" -> str.of.of.of.of.of.kind = "empty"
      [] OTHER -> FALSE

\* C19: every record the plain harvest returns has a non-empty URL and a
\* non-empty Markdown content.
C19_RecordsNonEmpty ==
    (pc = "done" /\ op = "content") =>
        \A j \in 1..Len(ret.val) :
            ret.val[j][1] # <<>> /\ ~is_empty(ret.val[j][2])

\* C15: the callback handed to HttpClient is invoked with (None, None) only
\* by fetch_content_from_text_async on a text without a URL, and then
\* exactly once; fetch_content_from_urls_async on an empty list returns
\* without having invoked it.
C15_SentinelOnlyFromTextEntry ==
    /\ (pc = "done" /\ op \in AsyncOps /\ urls = <<>>) => client_calls = <<Sentinel>>
    /\ (pc = "done" /\ op = "urls_async" /\ urls = <<>>) => client_calls = <<>>
    /\ \A j \in 1..Len(client_calls) :
          (client_calls[j].url = None \/ client_calls[j].payload = None)
              => (op \in AsyncOps /\ urls = <<>>)

\* The text entry has returned after its single (None, None) invocation.
C15_Witness ==
    pc = "done" /\ op \in AsyncOps /\ urls = <<>> /\ Len(client_calls) = 1

\* The steps a delivered value went through, innermost (first) step first.
RECURSIVE StepsOf(_)
StepsOf(t) ==
    CASE t.kind = "chunks" -> Append(StepsOf(t.md), "chunks")
      [] t.kind \in {"parse_document", "extract_main_content", "clear_content",
                     "parse_html", "final_clean_from_markdown"}
            -> Append(StepsOf(t.of), t.kind)
      [] OTHER -> <<"fetch">>

RECURSIVE FetchedBodyOf(_)
FetchedBodyOf(t) ==
    CASE t.kind = "chunks" -> FetchedBodyOf(t.md)
      [] t.kind \in {"parse_document", "extract_main_content", "clear_content",
                     "parse_html", "final_clean_from_markdown"}
            -> FetchedBodyOf(t.of)
      [] OTHER -> t

StrictOrder(o) ==
    <<"fetch", "parse_document", "extract_main_content", "clear_content", "parse_html",
      "final_clean_from_markdown">>
    \o (IF o \in {"as_chunks", "as_chunks_async"} THEN <<"chunks">> ELSE <<>>)

Written(line) == {j \in 1..Len(stderr) : stderr[j] = line}

\* C29: get_hyperlinks_content_as_chunks compares chunk_overlap with
\* chunk_size only after every URL has been requested and the results
\* converted: while the requests are being made nothing is returned and no
\* overlap warning is written; with an overlap that is not smaller, every
\* extracted URL has still been requested exactly once, in order, when the
\* empty result is returned, and the warning is the last line written;
\* when no URL was fetched the call returns empty and the overlap is never
\* looked at (no warning, whatever the overlap).
C29_OverlapCheckedAfterFetch ==
    op = "as_chunks" =>
        /\ pc = "loop" => (ret = NotReturned /\ Written(OverlapWarning) = {})
        /\ pc = "done" =>
              /\ sent = [k \in 1..Len(urls) |-> k]
              /\ \A k \in 1..Len(urls) : outcome[k] # "pending"
              /\ results = <<>> =>
                    /\ ret = Vec(<<>>)
                    /\ Written(OverlapWarning) = {} /\ Written(ChunkConfigFailure) = {}
              /\ (results # <<>> /\ OverlapNotSmaller) =>
                    /\ ret = Vec(<<>>)
                    /\ Written(OverlapWarning) = {Len(stderr)}

\* Two URLs and an overlap that is not smaller: the first request failed,
\* the second fetched a page, and the warning was written after both.
C29_Witness ==
    /\ pc = "done" /\ op = "as_chunks" /\ OverlapNotSmaller
    /\ Len(urls) = 2 /\ sent = <<1, 2>>
    /\ outcome[1] = "send_err" /\ outcome[2] = "ok"
    /\ stderr = << Eprintln("Error accessing", urls[1]), OverlapWarning >>
    /\ ret = Vec(<<>>)

(***************************************************************************)
(* URL extraction on its own: extract_urls applied to a text, the matches  *)
(* and their normalisation kept apart, and the normalisation applied once  *)
(* more to its own output.                                                 *)
(***************************************************************************)
UrlTokens == {Url_a, <<"(">>, <<")">>, <<".">>, <<"?">>, <<" ">>, <<",">>}
UrlTexts == {Concat(ts) : ts \in SeqUpTo(UrlTokens, MaxUrlTokens)}

UInit == u_text \in UrlTexts /\ u_raw = <<>> /\ u_clean = <<>> /\ u_again = <<>> /\ u_pc = "text"

UrlFind ==
    /\ u_pc = "text"
    /\ u_raw' = UrlFindIter(u_text, 1)
    /\ u_pc' = "found"
    /\ UNCHANGED <<u_text, u_clean, u_again>>

UrlClean ==
    /\ u_pc = "found"
    /\ u_clean' = MapCleanUrl(u_raw)
    /\ u_pc' = "clean"
    /\ UNCHANGED <<u_text, u_raw, u_again>>

UrlCleanAgain ==
    /\ u_pc = "clean"
    /\ u_again' = MapCleanUrl(u_clean)
    /\ u_pc' = "again"
    /\ UNCHANGED <<u_text, u_raw, u_clean>>

UrlNext ==
    \/ UrlFind /\ UNCHANGED <<hvars, mvars, dvars, cvars, fvars, lvars, avars>>
    \/ UrlClean /\ UNCHANGED <<hvars, mvars, dvars, cvars, fvars, lvars, avars>>
    \/ UrlCleanAgain /\ UNCHANGED <<hvars, mvars, dvars, cvars, fvars, lvars, avars>>

UrlInit == UInit /\ HIdle /\ MIdle /\ DIdle /\ CIdle /\ FIdle /\ LIdle /\ AIdle

UrlSpec == UrlInit /\ [][UrlNext]_vars

\* C9: normalising an already normalised URL changes nothing.
C9_CleanUrlIdempotent ==
    u_pc = "again" => u_again = u_clean

\* A match that lost both a ')' and other trailing punctuation.
C9_Witness ==
    /\ u_pc = "again"
    /\ \E k \in 1..Len(u_raw) :
          /\ Len(u_raw[k]) >= Len(u_clean[k]) + 2
          /\ u_raw[k][Len(u_raw[k])] = ")"

\* Index of the last ')' of m that closes an earlier '(' of m (0 if none),
\* scanning from i with depth parentheses open.
RECURSIVE LastPairedClose(_, _, _, _)
LastPairedClose(m, i, depth, last) ==
    IF i > Len(m) THEN last
    ELSE IF m[i] = "(" THEN LastPairedClose(m, i + 1, depth + 1, last)
    ELSE IF m[i] = ")" /\ depth > 0 THEN LastPairedClose(m, i + 1, depth - 1, i)
    ELSE LastPairedClose(m, i + 1, depth, last)

\* C10: every ')' of a match that closes an earlier '(' of the match is
\* still in the normalised URL (the normalised URL is a prefix of the match
\* that reaches at least to the last such ')').
C10_PairedParenKept ==
    u_pc \in {"clean", "again"} =>
        \A k \in 1..Len(u_raw) :
            /\ u_clean[k] = SubSeq(u_raw[k], 1, Len(u_clean[k]))
            /\ LastPairedClose(u_raw[k], 1, 0, 0) <= Len(u_clean[k])

IsPrefix(c, m) == Len(c) <= Len(m) /\ c = SubSeq(m, 1, Len(c))

Balanced(m) == CountChar(m, "(") = CountChar(m, ")")

\* C11: the normalised URL is the match without a trailing run of
\* . , ; ! ? ] } and it ends in none of them; a ')' is among the removed
\* characters only when the match has different numbers of '(' and ')', and
\* then the normalised URL does not end in ')'.
C11_CleanUrlTrailing ==
    u_pc \in {"clean", "again"} =>
        \A k \in 1..Len(u_raw) :
            LET m == u_raw[k]
                c == u_clean[k]
                removed == {m[j] : j \in (Len(c) + 1)..Len(m)}
            IN  /\ IsPrefix(c, m)
                /\ removed \subseteq {".", ",", ";", "!", "?", "]", "}", ")"}
                /\ c # <<>> => c[Len(c)] \notin {".", ",", ";", "!", "?", "]", "}"}
                /\ Balanced(m) => ")" \notin removed
                /\ ~Balanced(m) /\ c # <<>> => c[Len(c)] # ")"

\* A match with balanced parentheses that loses trailing punctuation and
\* keeps its closing parenthesis.
C11_Witness ==
    /\ u_pc = "clean"
    /\ \E k \in 1..Len(u_raw) :
          /\ Balanced(u_raw[k])
          /\ Len(u_clean[k]) < Len(u_raw[k])
          /\ u_clean[k][Len(u_clean[k])] = ")"

\* The positions of the text where a match of the iteration starts: those
\* where the pattern matches and that lie in no match that starts further
\* left (a scheme may occur inside the path of an earlier match).
IterationStarts(t) ==
    LET chosen[i \in 0..Len(t)] ==
            IF i = 0 THEN {}
            ELSE IF /\ UrlMatchEnd(t, i) # 0
                    /\ \A j \in chosen[i - 1] : UrlMatchEnd(t, j) < i
                 THEN chosen[i - 1] \cup {i}
                 ELSE chosen[i - 1]
    IN  chosen[Len(t)]

KthMatchStart(t, k) ==
    LET st == IterationStarts(t) IN
    CHOOSE i \in st : Cardinality({j \in st : j < i}) = k - 1

\* C12: extract_urls yields one normalised URL per match of the pattern, in
\* the order of the matches' first characters, a repeated URL once per
\* occurrence, and the empty sequence when nothing matches.
C12_ExtractUrlsPerMatch ==
    u_pc \in {"clean", "again"} =>
        /\ Len(u_clean) = Cardinality(IterationStarts(u_text))
        /\ \A k \in 1..Len(u_clean) :
              LET i == KthMatchStart(u_text, k)
              IN  u_clean[k] = clean_url(SubSeq(u_text, i, UrlMatchEnd(u_text, i)))

\* The same URL twice in one text: two equal entries.
C12_Witness ==
    /\ u_pc = "clean"
    /\ Len(u_clean) = 2
    /\ u_clean[1] = u_clean[2]

(***************************************************************************)
(* Characters, as the regex engine and str see them.                       *)
(***************************************************************************)
UpperLetters == <<"A", "B", "C", "D", "E", "F", "G", "H", "I", "J", "K", "L", "M",
                  "N", "O", "P", "Q", "R", "S", "T", "U", "V", "W", "X", "Y", "Z">>
LowerLetters == <<"a", "b", "c", "d", "e", "f", "g", "h", "i", "j", "k", "l", "m",
                  "n", "o", "p", "q", "r", "s", "t", "u", "v", "w", "x", "y", "z">>
AccentedLetters == {"e_acute", "o_acute"}

\* char::to_lowercase, and the case folding of (?i).
ToLower(c) ==
    IF c \in AsciiUpper
    THEN LowerLetters[CHOOSE n \in 1..Len(UpperLetters) : UpperLetters[n] = c]
    ELSE c

to_lowercase(s) == [k \in 1..Len(s) |-> ToLower(s[k])]

\* \s of the regex engine and char::is_whitespace.
IsWhitespace(c) == c \in {" ", "\t", "\n", "\r"}

\* \w of the regex engine.
IsWordChar(c) == c \in AsciiLower \cup AsciiUpper \cup AsciiDigit \cup AccentedLetters \cup {"_"}

\* Length in bytes of the UTF-8 encoding: str::len.
RECURSIVE ByteLen(_)
ByteLen(s) ==
    IF s = <<>> THEN 0
    ELSE (IF Head(s) \in AccentedLetters THEN 2 ELSE 1) + ByteLen(Tail(s))

\* str::trim.
RECURSIVE TrimStart(_)
TrimStart(s) == IF s # <<>> /\ IsWhitespace(Head(s)) THEN TrimStart(Tail(s)) ELSE s

RECURSIVE TrimEnd(_)
TrimEnd(s) ==
    IF s # <<>> /\ IsWhitespace(s[Len(s)]) THEN TrimEnd(SubSeq(s, 1, Len(s) - 1)) ELSE s

Trim(s) == TrimEnd(TrimStart(s))

\* The least index j >= i with s[j] = c, 0 if there is none.
RECURSIVE FirstIndexFrom(_, _, _)
FirstIndexFrom(s, i, c) ==
    IF i > Len(s) THEN 0
    ELSE IF s[i] = c THEN i
    ELSE FirstIndexFrom(s, i + 1, c)

\* The least index j >= i where the literal lit starts, 0 if there is none.
RECURSIVE FirstOccurrenceFrom(_, _, _)
FirstOccurrenceFrom(s, i, lit) ==
    IF i + Len(lit) - 1 > Len(s) THEN 0
    ELSE IF StartsAt(s, i, lit) THEN i
    ELSE FirstOccurrenceFrom(s, i + 1, lit)

\* Last index of the maximal run of characters of set starting at i
\* (i - 1 when there is none).
RECURSIVE RunEnd(_, _, _)
RunEnd(s, i, set) ==
    IF i <= Len(s) /\ s[i] \in set THEN RunEnd(s, i + 1, set) ELSE i - 1

RECURSIVE NonSpaceRunEnd(_, _)
NonSpaceRunEnd(s, i) ==
    IF i <= Len(s) /\ ~IsWhitespace(s[i]) THEN NonSpaceRunEnd(s, i + 1) ELSE i - 1

RECURSIVE WhitespaceRunEnd(_, _)
WhitespaceRunEnd(s, i) ==
    IF i <= Len(s) /\ IsWhitespace(s[i]) THEN WhitespaceRunEnd(s, i + 1) ELSE i - 1

(***************************************************************************)
(* Regex::replace_all: the non-overlapping leftmost matches, left to       *)
(* right. End(s, i) is the last index of the match starting at i (0 if     *)
(* none; no pattern here matches the empty string) and Rep(s, i, e) is     *)
(* what replaces the match s[i..e].                                        *)
(***************************************************************************)
replace_all(s, End(_, _), Rep(_, _, _)) ==
    LET from[i \in 1..(Len(s) + 1)] ==
            IF i > Len(s) THEN <<>>
            ELSE LET e == End(s, i) IN
                 IF e = 0 THEN <<s[i]>> \o from[i + 1]
                 ELSE Rep(s, i, e) \o from[e + 1]
    IN  from[1]

RepEmpty(s, i, e) == <<>>

\* <[^>]+>
HtmlTagEnd(s, i) ==
    IF s[i] = "<" /\ i + 1 <= Len(s) /\ s[i + 1] # ">"
    THEN FirstIndexFrom(s, i + 2, ">")
    ELSE 0

\* \[([^\]]+)\]\([^)]+\) : the index of the ']' that ends the label.
LinkLabelEnd(s, i) ==
    IF s[i] = "[" /\ i + 1 <= Len(s) /\ s[i + 1] # "]"
    THEN FirstIndexFrom(s, i + 2, "]")
    ELSE 0

LinkEnd(s, i) ==
    LET j == LinkLabelEnd(s, i) IN
    IF j # 0 /\ j + 2 <= Len(s) /\ s[j + 1] = "(" /\ s[j + 2] # ")"
    THEN FirstIndexFrom(s, j + 3, ")")
    ELSE 0

\* "$1": the label.
LinkRep(s, i, e) == SubSeq(s, i + 1, LinkLabelEnd(s, i) - 1)

\* https?://[^\s]+
BareUrlEnd(s, i) ==
    LET p == SchemeEnd(s, i) IN
    IF p = 0 THEN 0
    ELSE LET e == NonSpaceRunEnd(s, p) IN IF e < p THEN 0 ELSE e

\* A fence of three backquotes, lazily anything, a fence: up to the nearest
\* closing fence. The backquote character is written by name.
Fence == <<"backquote", "backquote", "backquote">>

CodeBlockEnd(s, i) ==
    IF StartsAt(s, i, Fence)
    THEN LET j == FirstOccurrenceFrom(s, i + 3, Fence) IN IF j = 0 THEN 0 ELSE j + 2
    ELSE 0

\* [ \t]+ replaced by one space.
SpaceRunEnd(s, i) == IF s[i] \in {" ", "\t"} THEN RunEnd(s, i, {" ", "\t"}) ELSE 0
RepSpace(s, i, e) == <<" ">>

\* \n{3,} replaced by two newlines.
ThreeNewlinesEnd(s, i) ==
    LET e == RunEnd(s, i, {"\n"}) IN IF e - i + 1 >= 3 THEN e ELSE 0
RepTwoNewlines(s, i, e) == <<"\n", "\n">>

\* \n{4,} replaced by three newlines.
FourNewlinesEnd(s, i) ==
    LET e == RunEnd(s, i, {"\n"}) IN IF e - i + 1 >= 4 THEN e ELSE 0
RepThreeNewlines(s, i, e) == <<"\n", "\n", "\n">>

\* \n\s*\n\s*\n : from a newline to the last newline of the whitespace run
\* it starts, when that run holds at least three newlines.
NewlineIndexes(s, i, e) == {k \in i..e : s[k] = "\n"}

BlankLinesEnd(s, i) ==
    IF s[i] # "\n" THEN 0
    ELSE LET nl == NewlineIndexes(s, i, WhitespaceRunEnd(s, i)) IN
         IF Cardinality(nl) >= 3 THEN CHOOSE k \in nl : \A m \in nl : m <= k ELSE 0

\* \b at the position before index i (between s[i-1] and s[i]).
IsWordAt(s, i) == i >= 1 /\ i <= Len(s) /\ IsWordChar(s[i])
WordBoundary(s, i) == IsWordAt(s, i - 1) # IsWordAt(s, i)

\* (?i) literal at i.
StartsAtIgnoreCase(s, i, lit) ==
    /\ i + Len(lit) - 1 <= Len(s)
    /\ \A k \in 1..Len(lit) : ToLower(s[i + k - 1]) = lit[k]

\* (?i)\b(a1|a2|...)\b : the first alternative, in order, that matches at i
\* and is followed by a word boundary.
RECURSIVE AlternativesEnd(_, _, _)
AlternativesEnd(s, i, alts) ==
    IF alts = <<>> THEN 0
    ELSE IF StartsAtIgnoreCase(s, i, Head(alts))
            /\ WordBoundary(s, i + Len(Head(alts)))
         THEN i + Len(Head(alts)) - 1
         ELSE AlternativesEnd(s, i, Tail(alts))

PhraseEnd(s, i, alts) == IF WordBoundary(s, i) THEN AlternativesEnd(s, i, alts) ELSE 0

(***************************************************************************)
(* unwanted_text_patterns (patterns.rs).                                   *)
(***************************************************************************)
UnwantedAlternatives ==
    << <<"a", "d", "v", "e", "r", "t", "i", "s", "e", "m", "e", "n", "t">>,
    <<"s", "p", "o", "n", "s", "o", "r", "e", "d">>, <<"c", "o", "o", "k",
    "i", "e", " ", "p", "o", "l", "i", "c", "y">>, <<"p", "r", "i", "v", "a",
    "c", "y", " ", "p", "o", "l", "i", "c", "y">>, <<"t", "e", "r", "m", "s",
    " ", "o", "f", " ", "s", "e", "r", "v", "i", "c", "e">>, <<"s", "u", "b",
    "s", "c", "r", "i", "b", "e">>, <<"n", "e", "w", "s", "l", "e", "t", "t",
    "e", "r">>, <<"f", "o", "l", "l", "o", "w", " ", "u", "s">>, <<"s", "h",
    "a", "r", "e", " ", "t", "h", "i", "s">>, <<"r", "e", "l", "a", "t", "e",
    "d", " ", "a", "r", "t", "i", "c", "l", "e", "s">>, <<"r", "e", "c", "o",
    "m", "m", "e", "n", "d", "e", "d">>, <<"c", "r", "e_acute", "d", "i", "t",
    "o", "s">>, <<"t", "o_acute", "p", "i", "c", "o", "s">>, <<"i", "n", "s",
    "c", "r", "e", "v", "a", "-", "s", "e">>, <<"m", "a", "n", "t", "e", "n",
    "h", "a", "-", "s", "e", " ", "i", "n", "f", "o", "r", "m", "a", "d",
    "o">>, <<"a", "c", "e", "s", "s", "o", " ", "l", "i", "v", "r", "e">>,
    <<"e", "d", "i", "t", "o", "r", "/", "a">> >>

Phrase_click_here == <<"c", "l", "i", "c", "k", " ", "h", "e", "r", "e">>

Phrase_read_more == <<"r", "e", "a", "d", " ", "m", "o", "r", "e">>

Phrase_see_also == <<"s", "e", "e", " ", "a", "l", "s", "o">>

Phrase_ver_topicos ==
    <<"v", "e", "r", " ", "t", "o_acute", "p", "i", "c", "o", "s">>

Phrase_imagem_do_banner ==
    <<"i", "m", "a", "g", "e", "m", " ", "d", "o", " ", "b", "a", "n", "n",
    "e", "r">>

Phrase_foto == <<"f", "o", "t", "o", ":">>

navigation_terms ==
    { <<"h", "o", "m", "e">>, <<"a", "b", "o", "u", "t">>, <<"c", "o", "n",
    "t", "a", "c", "t">>, <<"m", "e", "n", "u">>, <<"s", "e", "a", "r", "c",
    "h">>, <<"l", "o", "g", "i", "n">>, <<"r", "e", "g", "i", "s", "t", "e",
    "r">>, <<"s", "u", "b", "s", "c", "r", "i", "b", "e">>, <<"s", "h", "a",
    "r", "e">>, <<"f", "o", "l", "l", "o", "w">>, <<"b", "a", "c", "k">>,
    <<"n", "e", "x", "t">>, <<"p", "r", "e", "v">>, <<"m", "o", "r", "e">>,
    <<"a", "d", "v", "e", "r", "t", "i", "s", "e", "m", "e", "n", "t">>,
    <<"a", "d", "s">>, <<"s", "p", "o", "n", "s", "o", "r", "e", "d">>, <<"c",
    "o", "o", "k", "i", "e">>, <<"p", "r", "i", "v", "a", "c", "y">>, <<"t",
    "e", "r", "m", "s">> }

MetadataLines ==
    { <<"m", "e", "n", "u">>, <<"n", "a", "v", "i", "g", "a", "t", "i", "o",
    "n">>, <<"n", "a", "v">>, <<"f", "o", "o", "t", "e", "r">>, <<"h", "e",
    "a", "d", "e", "r">>, <<"s", "i", "d", "e", "b", "a", "r">> }

UnwantedEnd(s, i) == PhraseEnd(s, i, UnwantedAlternatives)
ClickHereEnd(s, i) == PhraseEnd(s, i, <<Phrase_click_here>>)
ReadMoreEnd(s, i) == PhraseEnd(s, i, <<Phrase_read_more>>)
SeeAlsoEnd(s, i) == PhraseEnd(s, i, <<Phrase_see_also>>)
VerTopicosEnd(s, i) == PhraseEnd(s, i, <<Phrase_ver_topicos>>)
ImagemDoBannerEnd(s, i) == PhraseEnd(s, i, <<Phrase_imagem_do_banner>>)

\* (?i)\bfoto:\b.*$ : foto: followed by a word character, then the rest
\* of the text, which must hold no newline (the dot does not match one and
\* the dollar is the end of the text).
FotoEnd(s, i) ==
    IF /\ WordBoundary(s, i)
       /\ StartsAtIgnoreCase(s, i, Phrase_foto)
       /\ WordBoundary(s, i + Len(Phrase_foto))
       /\ FirstIndexFrom(s, i + Len(Phrase_foto), "\n") = 0
    THEN Len(s)
    ELSE 0

\* for pattern in unwanted_text_patterns() { replace_all(.., "") }
remove_unwanted_text(s) ==
    LET r1 == replace_all(s, UnwantedEnd, RepEmpty)
        r2 == replace_all(r1, ClickHereEnd, RepEmpty)
        r3 == replace_all(r2, ReadMoreEnd, RepEmpty)
        r4 == replace_all(r3, SeeAlsoEnd, RepEmpty)
        r5 == replace_all(r4, VerTopicosEnd, RepEmpty)
        r6 == replace_all(r5, ImagemDoBannerEnd, RepEmpty)
    IN  replace_all(r6, FotoEnd, RepEmpty)

(***************************************************************************)
(* remove_lines_metadata_or_navigation (content_processor.rs).             *)
(***************************************************************************)
\* str::lines: split at newlines, a carriage return before one dropped; no
\* last empty line.
StripCr(line) ==
    IF line # <<>> /\ line[Len(line)] = "\r" THEN SubSeq(line, 1, Len(line) - 1) ELSE line

RECURSIVE LinesFrom(_, _)
LinesFrom(s, i) ==
    IF i > Len(s) THEN <<>>
    ELSE LET j == FirstIndexFrom(s, i, "\n") IN
         IF j = 0 THEN <<SubSeq(s, i, Len(s))>>
         ELSE <<StripCr(Slice(s, i, j - 1))>> \o LinesFrom(s, j + 1)

lines(s) == LinesFrom(s, 1)

\* [..].join("\n")
RECURSIVE join(_)
join(ls) ==
    IF ls = <<>> THEN <<>>
    ELSE IF Len(ls) = 1 THEN ls[1]
    ELSE ls[1] \o <<"\n">> \o join(Tail(ls))

Contains(s, c) == \E k \in 1..Len(s) : s[k] = c

keep_line_length_first_mut(line) ==
    LET trimmed == Trim(line)
        lower == to_lowercase(trimmed)
    IN  IF trimmed = <<>> \/ ByteLen(trimmed) < 5 THEN trimmed = <<>>
        ELSE IF StartsAt(trimmed, 1, <<"#">>) \/ StartsAt(trimmed, 1, <<"#", "#">>) THEN TRUE
        ELSE IF ~Contains(trimmed, " ") /\ lower \in navigation_terms THEN FALSE
        ELSE IF \/ StartsAt(lower, 1, <<"h", "t", "t", "p">>)
                \/ Contains(lower, "@")
                \/ lower \in MetadataLines
             THEN FALSE
        ELSE IF ByteLen(trimmed) < 2 THEN FALSE
        ELSE TRUE

\* The closure of the filter: is the line kept?
keep_line(line) ==
    LET trimmed == Trim(line)
        lower == to_lowercase(trimmed)
    IN  IF StartsAt(trimmed, 1, <<"#">>) \/ StartsAt(trimmed, 1, <<"#", "#">>) THEN TRUE
        ELSE IF trimmed = <<>> \/ ByteLen(trimmed) < 5 THEN trimmed = <<>>
        ELSE IF ~Contains(trimmed, " ") /\ lower \in navigation_terms THEN FALSE
        ELSE IF \/ StartsAt(lower, 1, <<"h", "t", "t", "p">>)
                \/ Contains(lower, "@")
                \/ lower \in MetadataLines
             THEN FALSE
        ELSE IF ByteLen(trimmed) < 2 THEN FALSE
        ELSE TRUE

RECURSIVE remove_lines_metadata_or_navigation(_)
remove_lines_metadata_or_navigation(ls) ==
    IF ls = <<>> THEN <<>>
    ELSE (IF keep_line(Head(ls)) THEN <<Head(ls)>> ELSE <<>>)
         \o remove_lines_metadata_or_navigation(Tail(ls))

(***************************************************************************)
(* final_clean_from_markdown (content_processor.rs).                       *)
(***************************************************************************)
final_clean_from_markdown_cap_first_mut(markdown_content) ==
    LET no_tags == replace_all(markdown_content, HtmlTagEnd, RepEmpty)
        no_links == replace_all(no_tags, LinkEnd, LinkRep)
        no_urls == replace_all(no_links, BareUrlEnd, RepEmpty)
        no_code == replace_all(no_urls, CodeBlockEnd, RepEmpty)
        spaced == replace_all(no_code, SpaceRunEnd, RepSpace)
        newlined == replace_all(spaced, ThreeNewlinesEnd, RepTwoNewlines)
        no_phrases == remove_unwanted_text(newlined)
        cleaned == replace_all(no_phrases, BlankLinesEnd, RepTwoNewlines)
        capped == replace_all(cleaned, FourNewlinesEnd, RepThreeNewlines)
        filtered == join(remove_lines_metadata_or_navigation(lines(capped)))
    IN  Trim(filtered)

final_clean_from_markdown(markdown_content) ==
    LET no_tags == replace_all(markdown_content, HtmlTagEnd, RepEmpty)
        no_links == replace_all(no_tags, LinkEnd, LinkRep)
        no_urls == replace_all(no_links, BareUrlEnd, RepEmpty)
        no_code == replace_all(no_urls, CodeBlockEnd, RepEmpty)
        spaced == replace_all(no_code, SpaceRunEnd, RepSpace)
        newlined == replace_all(spaced, ThreeNewlinesEnd, RepTwoNewlines)
        no_phrases == remove_unwanted_text(newlined)
        cleaned == replace_all(no_phrases, BlankLinesEnd, RepTwoNewlines)
        filtered == join(remove_lines_metadata_or_navigation(lines(cleaned)))
        capped == replace_all(filtered, FourNewlinesEnd, RepThreeNewlines)
    IN  Trim(capped)

(***************************************************************************)
(* The clean-up pass on its own: final_clean_from_markdown applied to a    *)
(* Markdown text, then to its own output.                                  *)
(***************************************************************************)
Word_alpha == <<"a", "l", "p", "h", "a">>
Phrase_subscribe == <<"s", "u", "b", "s", "c", "r", "i", "b", "e">>

Link_alpha == <<"[", "a", "l", "p", "h", "a", "]", "(", "u", ")">>

MdTokens == {Word_alpha, Phrase_subscribe, <<" ">>, <<"\n">>, Link_alpha}
MdTexts == {Concat(ts) : ts \in SeqUpTo(MdTokens, MaxMdTokens)}

\* Texts with paragraphs that are one short line each, between two words
\* and inside surrounding whitespace.
Gap_ok == <<"\n", "\n", "o", "k", "\n", "\n">>
MdGapTexts ==
    {<<" ">> \o Word_alpha \o Concat(ts) \o Word_alpha \o <<"\n">> :
        ts \in SeqUpTo({Gap_ok}, MaxMdTokens - 3)}

MInit ==
    /\ md_in \in MdTexts \cup MdGapTexts
    /\ md_out = <<>>
    /\ md_again = <<>>
    /\ md_pc = "in"

PassB ==
    /\ md_pc = "in"
    /\ md_out' = final_clean_from_markdown(md_in)
    /\ md_pc' = "out"
    /\ UNCHANGED <<md_in, md_again>>

PassBAgain ==
    /\ md_pc = "out"
    /\ md_again' = final_clean_from_markdown(md_out)
    /\ md_pc' = "again"
    /\ UNCHANGED <<md_in, md_out>>

PassBNext ==
    \/ PassB /\ UNCHANGED <<hvars, uvars, dvars, cvars, fvars, lvars, avars>>
    \/ PassBAgain /\ UNCHANGED <<hvars, uvars, dvars, cvars, fvars, lvars, avars>>

PassBInit == MInit /\ HIdle /\ UIdle /\ DIdle /\ CIdle /\ FIdle /\ LIdle /\ AIdle

PassBSpec == PassBInit /\ [][PassBNext]_vars

\* C8: the clean-up pass applied to its own output changes nothing.
C8_PassBIdempotent ==
    md_pc = "again" => md_again = md_out

MaxNewlineRun(s) ==
    LET runs == {n \in 0..Len(s) :
                    \E i \in 1..(Len(s) - n + 1) : \A k \in i..(i + n - 1) : s[k] = "\n"}
    IN  CHOOSE n \in runs : \A m \in runs : m <= n

\* C28: the output of the clean-up pass, for every input, has no leading
\* and no trailing whitespace and no run of 4 or more newline characters.
C28_PassBTrimmedAndCapped ==
    md_pc \in {"out", "again"} =>
        /\ md_out # <<>> => (~IsWhitespace(md_out[1]) /\ ~IsWhitespace(md_out[Len(md_out)]))
        /\ MaxNewlineRun(md_out) < 4
        /\ md_pc = "again" =>
              /\ md_again # <<>> => ( /\ ~IsWhitespace(md_again[1])
                                      /\ ~IsWhitespace(md_again[Len(md_again)]) )
              /\ MaxNewlineRun(md_again) < 4

\* Two one-line paragraphs that the line filter drops leave four newlines
\* in a row, which come out as three; the surrounding whitespace is gone.
C28_Witness ==
    /\ md_pc = "out"
    /\ md_in = <<" ">> \o Word_alpha \o Gap_ok \o Gap_ok \o Word_alpha \o <<"\n">>
    /\ md_out = Word_alpha \o <<"\n", "\n", "\n">> \o Word_alpha

(***************************************************************************)
(* extract_main_content (content_processor.rs). A parsed document is the   *)
(* sequence of the elements under its body in document order, each with    *)
(* its tag, role attribute, class and the index of its parent (0: the      *)
(* body), and whether it has a body at all (a frameset document has none). *)
(* The HTML of an element is a term: the element and its subtree.          *)
(***************************************************************************)
MaxNodes == 2

Element(tag, role, class) == [tag |-> tag, role |-> role, class |-> class]

ElementKinds ==
    { Element("article", "none", "none"), Element("main", "none", "none"),
      Element("div", "main", "none"), Element("div", "none", "content"),
      Element("div", "none", "article"), Element("div", "none", "post"),
      Element("div", "none", "entry"), Element("div", "none", "none") }

\* Is element a of the node sequence ns an ancestor of element j, or j?
RECURSIVE IsAncestorOrSelf(_, _, _)
IsAncestorOrSelf(ns, a, j) ==
    IF j = a THEN TRUE
    ELSE IF j = 0 THEN FALSE
    ELSE IsAncestorOrSelf(ns, a, ns[j].parent)

\* The node sequences of at most n elements that are trees in document
\* order: an element's parent is the body, the element before it or one of
\* that element's ancestors.
RECURSIVE NodeSeqs(_)
NodeSeqs(n) ==
    IF n = 0 THEN {<<>>}
    ELSE LET shorter == NodeSeqs(n - 1)
             longest == {ns \in shorter : Len(ns) = n - 1}
         IN  shorter \cup
             { Append(ns, [el |-> e, parent |-> q]) :
                 ns \in longest, e \in ElementKinds, q \in 0..(n - 1) }

WellFormed(ns) ==
    \A j \in 1..Len(ns) :
        ns[j].parent = 0 \/ (j > 1 /\ IsAncestorOrSelf(ns, ns[j].parent, j - 1))

Documents ==
    { [body |-> b, nodes |-> ns] :
        b \in BOOLEAN, ns \in {x \in NodeSeqs(MaxNodes) : WellFormed(x)} }

\* Selector::parse(selector_str) matching an element.
SelectorMatches(sel, e) ==
    CASE sel = "article" -> e.tag = "article"
      [] sel = "main" -> e.tag = "main"
      [] sel = "[role='main']" -> e.role = "main"
      [] sel = ".content" -> e.class = "content"
      [] sel = ".article" -> e.class = "article"
      [] sel = ".post" -> e.class = "post"
      [] sel = ".entry" -> e.class = "entry"
      [] sel = "h1, h2, h3, h4, h5, h6" -> e.tag \in {"h1", "h2", "h3", "h4", "h5", "h6"}
      [] sel = "p" -> e.tag = "p"
      [] sel = "ul, ol" -> e.tag \in {"ul", "ol"}
      [] sel = "blockquote" -> e.tag = "blockquote"
      [] sel = "pre" -> e.tag = "pre"
      [] sel = "table" -> e.tag = "table"

MatchingNodes(doc, sel) == {j \in 1..Len(doc.nodes) : SelectorMatches(sel, doc.nodes[j].el)}

select_next_last_mut(doc, sel) ==
    LET ms == MatchingNodes(doc, sel) IN
    IF ms = {} THEN 0 ELSE CHOOSE j \in ms : \A m \in ms : m <= j

\* document.select(&selector).next(): the first match in document order,
\* 0 for None.
select_next(doc, sel) ==
    LET ms == MatchingNodes(doc, sel) IN
    IF ms = {} THEN 0 ELSE CHOOSE j \in ms : \A m \in ms : j <= m

\* element.html()
element_html(doc, i) ==
    [kind |-> "element", root |-> i,
     nodes |-> {j \in 1..Len(doc.nodes) : IsAncestorOrSelf(doc.nodes, i, j)}]

body_html(doc) == [kind |-> "element", root |-> 0, nodes |-> 1..Len(doc.nodes)]

EmptyHtml == [kind |-> "empty", root |-> 0, nodes |-> {}]

\* for selector_str in selectors.iter() { if let Some(element) = ... }
RECURSIVE TryInOrder(_, _)
TryInOrder(doc, sels) ==
    IF sels = <<>> THEN None
    ELSE LET i == select_next(doc, Head(sels)) IN
         IF i # 0 THEN Some(element_html(doc, i)) ELSE TryInOrder(doc, Tail(sels))

semantic_selectors == <<"article", "main", "[role='main']">>
class_selectors == <<".content", ".article", ".post", ".entry">>

try_semantic_tags(doc) == TryInOrder(doc, semantic_selectors)
try_content_selectors_direct(doc) == TryInOrder(doc, class_selectors)
fallback_to_body_tag(doc) == IF doc.body THEN body_html(doc) ELSE EmptyHtml

extract_main_content(doc) ==
    IF try_semantic_tags(doc) # None THEN try_semantic_tags(doc)[1]
    ELSE IF try_content_selectors_direct(doc) # None THEN try_content_selectors_direct(doc)[1]
    ELSE fallback_to_body_tag(doc)

DInit == d_doc \in Documents /\ d_out = <<>> /\ d_pc = "doc"

ExtractMainContent ==
    /\ d_pc = "doc"
    /\ d_out' = extract_main_content(d_doc)
    /\ d_pc' = "out"
    /\ UNCHANGED d_doc

SelectNext == ExtractMainContent /\ UNCHANGED <<hvars, uvars, mvars, cvars, fvars, lvars, avars>>

SelectInit == DInit /\ HIdle /\ UIdle /\ MIdle /\ CIdle /\ FIdle /\ LIdle /\ AIdle

SelectSpec == SelectInit /\ [][SelectNext]_vars

\* The order of priority of the selectors, highest first.
PriorityOrder ==
    <<"article", "main", "[role='main']", ".content", ".article", ".post", ".entry">>

MatchedPriorities(doc) ==
    {q \in 1..Len(PriorityOrder) : MatchingNodes(doc, PriorityOrder[q]) # {}}

\* The result is the first element, in document order, of the selector of
\* highest priority that matches anything; the body, or the empty string
\* without a body, when no selector matches.
PriorityCascade ==
    LET qs == MatchedPriorities(d_doc) IN
    IF qs # {}
    THEN LET q == CHOOSE x \in qs : \A y \in qs : x <= y
             ms == MatchingNodes(d_doc, PriorityOrder[q])
             i == CHOOSE x \in ms : \A y \in ms : x <= y
         IN  /\ d_out.kind = "element" /\ d_out.root = i
             /\ d_out.nodes = {j \in 1..Len(d_doc.nodes) :
                                  IsAncestorOrSelf(d_doc.nodes, i, j)}
    ELSE IF d_doc.body
         THEN d_out.kind = "element" /\ d_out.root = 0 /\ d_out.nodes = 1..Len(d_doc.nodes)
         ELSE d_out.kind = "empty"

ArticlesIn(h) == {j \in h.nodes : d_doc.nodes[j].el.tag = "article"}

\* C13 (as stated): the selection is the priority cascade, and the result
\* never holds a second article.
C13_CascadeNoSecondArticle ==
    d_pc = "out" => /\ PriorityCascade
                    /\ Cardinality(ArticlesIn(d_out)) <= 1

\* C13 (amended): the selection is the priority cascade, and an article in
\* the result other than the selected element is a descendant of it.
C13_CascadeFirstArticleSubtree ==
    d_pc = "out" =>
        /\ PriorityCascade
        /\ \A j \in ArticlesIn(d_out) :
              j # d_out.root =>
                  /\ d_doc.nodes[j].parent # 0
                  /\ IsAncestorOrSelf(d_doc.nodes, d_out.root, d_doc.nodes[j].parent)

\* Two articles side by side, the first one selected without the second.
C13_Witness ==
    /\ d_pc = "out"
    /\ Len(d_doc.nodes) = 2
    /\ d_doc.nodes[1].el.tag = "article" /\ d_doc.nodes[2].el.tag = "article"
    /\ d_doc.nodes[2].parent = 0
    /\ d_out.root = 1 /\ d_out.nodes = {1}

(***************************************************************************)
(* HttpConfigBuilder and HttpConfig (http_config.rs), and the clients      *)
(* build_client and build_client_async make from a configuration           *)
(* (http_client.rs). A client is the term of the settings it was built     *)
(* with.                                                                   *)
(***************************************************************************)
MaxSetterCalls == 3

TimeoutValues == {5000, 30000}
RedirectValues == {0, 5}

\* HttpConfigBuilder::new()
HttpConfigBuilder_new == [timeout |-> None, max_redirect |-> None, cookie_store |-> FALSE]

\* The setters: each returns the builder with one field assigned.
set_timeout(b, ms) == [b EXCEPT !.timeout = Some(ms)]
set_max_redirect_mut(b, n) == [b EXCEPT !.max_redirect = Some(n), !.cookie_store = FALSE]
set_max_redirect(b, n) == [b EXCEPT !.max_redirect = Some(n)]
set_cookie_store(b, v) == [b EXCEPT !.cookie_store = v]

\* HttpConfigBuilder::build
build(b) ==
    [timeout |-> b.timeout, max_redirect |-> b.max_redirect, cookie_store |-> b.cookie_store]

\* The getters of HttpConfig.
HttpConfig_timeout(c) == c.timeout
HttpConfig_max_redirect(c) == c.max_redirect
HttpConfig_cookie_store(c) == c.cookie_store

\* The redirect cap used when max_redirect is None, and the one of a
\* client made by Client::new() (the transport's default policy).
FallbackRedirects == 2
TransportRedirects == 10

\* Client::new(): the transport's defaults throughout.
Client_new == [timeout |-> "default", redirect |-> TransportRedirects, cookie_store |-> FALSE]

\* build_client and build_client_async have the same body; built_ok is
\* whether ClientBuilder::build() returned Ok.
build_client(config, built_ok) ==
    IF config.timeout # None
    THEN IF built_ok
         THEN [timeout |-> config.timeout[1],
               redirect |-> IF config.max_redirect # None THEN config.max_redirect[1]
                            ELSE FallbackRedirects,
               cookie_store |-> config.cookie_store]
         ELSE Client_new
    ELSE Client_new

CInit ==
    /\ builder = HttpConfigBuilder_new
    /\ setter_log = <<>>
    /\ http_config = None
    /\ client = None
    /\ c_pc = "builder"

Setter(field, value, b) ==
    /\ c_pc = "builder"
    /\ Len(setter_log) < MaxSetterCalls
    /\ builder' = b
    /\ setter_log' = Append(setter_log, [field |-> field, value |-> value])
    /\ UNCHANGED <<http_config, client, c_pc>>

Timeout == \E ms \in TimeoutValues : Setter("timeout", ms, set_timeout(builder, ms))
MaxRedirect == \E n \in RedirectValues : Setter("max_redirect", n, set_max_redirect(builder, n))
CookieStore == \E v \in BOOLEAN : Setter("cookie_store", v, set_cookie_store(builder, v))

Build ==
    /\ c_pc = "builder"
    /\ http_config' = Some(build(builder))
    /\ c_pc' = "config"
    /\ UNCHANGED <<builder, setter_log, client>>

BuildClient(kind) ==
    /\ c_pc = "config"
    /\ \E built_ok \in BOOLEAN :
          client' = Some([kind |-> kind, settings |-> build_client(http_config[1], built_ok)])
    /\ c_pc' = "client"
    /\ UNCHANGED <<builder, setter_log, http_config>>

ConfigNext ==
    \/ Timeout /\ UNCHANGED <<hvars, uvars, mvars, dvars, fvars, lvars, avars>>
    \/ MaxRedirect /\ UNCHANGED <<hvars, uvars, mvars, dvars, fvars, lvars, avars>>
    \/ CookieStore /\ UNCHANGED <<hvars, uvars, mvars, dvars, fvars, lvars, avars>>
    \/ Build /\ UNCHANGED <<hvars, uvars, mvars, dvars, fvars, lvars, avars>>
    \/ BuildClient("blocking") /\ UNCHANGED <<hvars, uvars, mvars, dvars, fvars, lvars, avars>>
    \/ BuildClient("async") /\ UNCHANGED <<hvars, uvars, mvars, dvars, fvars, lvars, avars>>

ConfigInit == CInit /\ HIdle /\ UIdle /\ MIdle /\ DIdle /\ FIdle /\ LIdle /\ AIdle

ConfigSpec == ConfigInit /\ [][ConfigNext]_vars

\* C14: the client built from a configuration follows at most max_redirect
\* redirects, 2 when max_redirect is absent, and keeps cookies exactly when
\* cookie_store is true, whatever the timeout is.
C14_ClientHonoursConfig ==
    c_pc = "client" =>
        LET config == http_config[1]
            settings == client[1].settings
        IN  /\ settings.redirect = IF config.max_redirect # None THEN config.max_redirect[1]
                                   ELSE 2
            /\ settings.cookie_store = config.cookie_store

\* The calls of the setter of a field, by their position in the chain.
CallsOf(field) == {j \in 1..Len(setter_log) : setter_log[j].field = field}

\* The argument of the last call of the setter of a field (a call was made).
LastArgument(field) ==
    setter_log[CHOOSE j \in CallsOf(field) : \A i \in CallsOf(field) : i <= j].value

\* C20: after any chain of setter calls, each field of the builder, and
\* after build() each getter of the configuration, holds the argument of
\* the last call of that field's setter, or the default (None, None,
\* false) when it was never called; so neither the order of setters of
\* different fields nor a setter of another field changes it.
C20_BuilderLastSetterWins ==
    c_pc # "off" =>
        /\ builder.timeout =
              IF CallsOf("timeout") = {} THEN None ELSE Some(LastArgument("timeout"))
        /\ builder.max_redirect =
              IF CallsOf("max_redirect") = {} THEN None ELSE Some(LastArgument("max_redirect"))
        /\ builder.cookie_store =
              IF CallsOf("cookie_store") = {} THEN FALSE ELSE LastArgument("cookie_store")
        /\ c_pc \in {"config", "client"} =>
              /\ HttpConfig_timeout(http_config[1]) = builder.timeout
              /\ HttpConfig_max_redirect(http_config[1]) = builder.max_redirect
              /\ HttpConfig_cookie_store(http_config[1]) = builder.cookie_store

\* Built after cookie_store(true), a max_redirect and a second, different
\* max_redirect.
C20_Witness ==
    /\ c_pc = "config"
    /\ Len(setter_log) = 3
    /\ setter_log[1] = [field |-> "cookie_store", value |-> TRUE]
    /\ setter_log[2].field = "max_redirect" /\ setter_log[3].field = "max_redirect"
    /\ setter_log[2].value # setter_log[3].value
    /\ HttpConfig_cookie_store(http_config[1])


(***************************************************************************)
(* The request handlers of http_client.rs, seen from the wire: which       *)
(* requests are issued, with which User-Agent header, and in which order   *)
(* the callback is invoked.  The other headers are the same literals on    *)
(* every request and are left out of the request record.                   *)
(***************************************************************************)
MaxUrls == 2

\* Two of the twelve variants UserAgent::random() chooses from.
UserAgents == {"WindowsChrome", "LinuxFirefox"}

FetchUrlLists == SeqUpTo({Url_a, Url_b_paren}, MaxUrls)

\* client.get(url).header("User-Agent", user_agent.to_string())...
get_request(url, agent) == [url |-> url, user_agent |-> agent]

FInit ==
    /\ f_path = "none" /\ f_urls = <<>> /\ user_agent = None /\ requests = <<>>
    /\ f_task = <<>> /\ f_results = <<>> /\ f_calls = <<>> /\ f_pc = "idle"

\* The head of both handlers: build the client, choose the user agent, and
\* nothing is requested yet.
EnterHandler(path, us, agent) ==
    /\ f_pc = "idle"
    /\ f_path' = path /\ f_urls' = us
    /\ user_agent' = Some(agent)
    /\ f_task' = [k \in 1..Len(us) |-> "created"]
    /\ f_pc' = IF path = "blocking" THEN "loop" ELSE "join"
    /\ UNCHANGED <<requests, f_results, f_calls>>

handles_http_requests_results ==
    \E us \in FetchUrlLists, agent \in UserAgents : EnterHandler("blocking", us, agent)

handles_http_requests_results_async ==
    \E us \in FetchUrlLists, agent \in UserAgents : EnterHandler("async", us, agent)

\* One iteration of `for url in &urls`: the request is built, sent and
\* answered; (url, html) is pushed when send() and text() are both Ok.
LoopIteration ==
    LET k == Len(requests) + 1 IN
    /\ f_pc = "loop" /\ k <= Len(f_urls)
    /\ requests' = Append(requests, get_request(f_urls[k], user_agent[1]))
    /\ \E pushed \in BOOLEAN :
        f_results' = IF pushed THEN Append(f_results, k) ELSE f_results
    /\ f_task' = [f_task EXCEPT ![k] = "done"]
    /\ UNCHANGED <<f_path, f_urls, user_agent, f_calls, f_pc>>

LoopReturn ==
    /\ f_pc = "loop" /\ Len(requests) = Len(f_urls)
    /\ f_pc' = "done"
    /\ UNCHANGED <<f_path, f_urls, user_agent, requests, f_task, f_results, f_calls>>

Issue_limit_mut(k) ==
    /\ f_pc = "join" /\ f_task[k] = "created" /\ k = Len(requests) + 1
    /\ \A j \in 1..(k - 1) : f_task[j] = "done"
    /\ requests' = Append(requests, get_request(f_urls[k], user_agent[1]))
    /\ f_task' = [f_task EXCEPT ![k] = "send"]
    /\ UNCHANGED <<f_path, f_urls, user_agent, f_results, f_calls, f_pc>>

Issue_fresh_mut(k) ==
    /\ f_pc = "join" /\ f_task[k] = "created" /\ k = Len(requests) + 1
    /\ \E agent \in UserAgents :
        requests' = Append(requests, get_request(f_urls[k], agent))
    /\ f_task' = [f_task EXCEPT ![k] = "send"]
    /\ UNCHANGED <<f_path, f_urls, user_agent, f_results, f_calls, f_pc>>

\* join_all polls the request futures in the order of urls; the first poll
\* of future k builds its request, with the user agent the async block
\* captured (UserAgent is Copy), and sends it.
Issue(k) ==
    /\ f_pc = "join" /\ f_task[k] = "created" /\ k = Len(requests) + 1
    /\ requests' = Append(requests, get_request(f_urls[k], user_agent[1]))
    /\ f_task' = [f_task EXCEPT ![k] = "send"]
    /\ UNCHANGED <<f_path, f_urls, user_agent, f_results, f_calls, f_pc>>

\* send().await of future k ends: Err goes to the callback at once, Ok
\* leaves the body to be read.
SendEnds(k) ==
    /\ f_pc = "join" /\ f_task[k] = "send"
    /\ \E send_ok \in BOOLEAN :
        IF send_ok
        THEN /\ f_task' = [f_task EXCEPT ![k] = "text"]
             /\ f_calls' = f_calls
        ELSE /\ f_task' = [f_task EXCEPT ![k] = "callback"]
             /\ f_calls' = Append(f_calls, k)
    /\ UNCHANGED <<f_path, f_urls, user_agent, requests, f_results, f_pc>>

TextEnds_mutex_mut(k) ==
    /\ f_pc = "join" /\ f_task[k] = "text"
    /\ \A j \in 1..Len(f_urls) : f_task[j] # "callback"
    /\ f_task' = [f_task EXCEPT ![k] = "callback"]
    /\ f_calls' = Append(f_calls, k)
    /\ UNCHANGED <<f_path, f_urls, user_agent, requests, f_results, f_pc>>

\* response.text().await of future k ends and the callback is invoked.
TextEnds(k) ==
    /\ f_pc = "join" /\ f_task[k] = "text"
    /\ f_task' = [f_task EXCEPT ![k] = "callback"]
    /\ f_calls' = Append(f_calls, k)
    /\ UNCHANGED <<f_path, f_urls, user_agent, requests, f_results, f_pc>>

\* The future the callback returned completes.
CallbackEnds(k) ==
    /\ f_pc = "join" /\ f_task[k] = "callback"
    /\ f_task' = [f_task EXCEPT ![k] = "done"]
    /\ UNCHANGED <<f_path, f_urls, user_agent, requests, f_results, f_calls, f_pc>>

\* join_all(requests).await is ready; Ok(()) is returned.
JoinAllReady ==
    /\ f_pc = "join"
    /\ \A k \in 1..Len(f_urls) : f_task[k] = "done"
    /\ f_pc' = "done"
    /\ UNCHANGED <<f_path, f_urls, user_agent, requests, f_task, f_results, f_calls>>

FetchNext ==
    \/ handles_http_requests_results /\ UNCHANGED <<hvars, uvars, mvars, dvars, cvars, lvars, avars>>
    \/ LoopIteration /\ UNCHANGED <<hvars, uvars, mvars, dvars, cvars, lvars, avars>>
    \/ LoopReturn /\ UNCHANGED <<hvars, uvars, mvars, dvars, cvars, lvars, avars>>
    \/ handles_http_requests_results_async /\ UNCHANGED <<hvars, uvars, mvars, dvars, cvars, lvars, avars>>
    \/ \E k \in 1..Len(f_urls) : Issue(k) /\ UNCHANGED <<hvars, uvars, mvars, dvars, cvars, lvars, avars>>
    \/ \E k \in 1..Len(f_urls) : SendEnds(k) /\ UNCHANGED <<hvars, uvars, mvars, dvars, cvars, lvars, avars>>
    \/ \E k \in 1..Len(f_urls) : TextEnds(k) /\ UNCHANGED <<hvars, uvars, mvars, dvars, cvars, lvars, avars>>
    \/ \E k \in 1..Len(f_urls) : CallbackEnds(k) /\ UNCHANGED <<hvars, uvars, mvars, dvars, cvars, lvars, avars>>
    \/ JoinAllReady /\ UNCHANGED <<hvars, uvars, mvars, dvars, cvars, lvars, avars>>

FetchInit == FInit /\ HIdle /\ UIdle /\ MIdle /\ DIdle /\ CIdle /\ LIdle /\ AIdle

FetchSpec == FetchInit /\ [][FetchNext]_vars

IssuesWith(k, agent) ==
    Issue(k) /\ requests'[Len(requests')].user_agent = agent

\* C21 (as stated): the blocking path carries one user agent on every
\* request of a call, and in the concurrent path the agent of each request
\* is chosen anew: whatever the earlier requests of the call carried, the
\* next request can carry any agent of the pool.
C21_AgentChosenPerRequest ==
    /\ f_path = "blocking" =>
           \A i \in 1..Len(requests) : requests[i].user_agent = user_agent[1]
    /\ f_path = "async" =>
           \A k \in 1..Len(f_urls), agent \in UserAgents :
               (f_task[k] = "created" /\ k = Len(requests) + 1)
                   => ENABLED IssuesWith(k, agent)

\* C21 (amended): in both paths one user agent is chosen per call and every
\* request of the call carries it; two requests of one call never differ.
C21_OneAgentPerCall ==
    /\ f_path \in {"blocking", "async"} =>
           \A i \in 1..Len(requests) : requests[i].user_agent = user_agent[1]
    /\ \A i, j \in 1..Len(requests) : requests[i].user_agent = requests[j].user_agent

C21_Witness ==
    /\ f_path = "async" /\ Len(requests) >= 2
    /\ requests[1].url # requests[2].url
    /\ requests[1].user_agent = requests[2].user_agent


InFlight == {k \in 1..Len(f_urls) : f_task[k] \in {"send", "text"}}

\* C23: the streaming handler makes one request future per URL and issues
\* the requests one after the other without waiting for anything: the next
\* request can be issued whatever the earlier ones are doing (pending,
\* answered, inside the callback), each URL is requested exactly once, and
\* nothing caps the number of requests in flight.
C23_AllRequestsTogether ==
    f_path = "async" =>
        /\ Len(f_task) = Len(f_urls)
        /\ Len(requests) <= Len(f_urls)
        /\ \A k \in 1..Len(requests) : requests[k].url = f_urls[k]
        /\ \A k \in 1..Len(f_urls) :
              (f_pc = "join" /\ f_task[k] = "created" /\ k = Len(requests) + 1)
                  => ENABLED Issue(k)
        /\ f_pc = "done" => Len(requests) = Len(f_urls)

\* As many URLs as the bound admits, and all their requests in flight.
C23_Witness ==
    /\ f_path = "async" /\ Len(f_urls) = MaxUrls
    /\ Len(requests) = MaxUrls
    /\ InFlight = 1..MaxUrls
    /\ \A k \in 1..MaxUrls : f_task[k] = "send"

\* C24: the callback of a URL is invoked when that URL's fetch ends, in
\* the order in which the fetches end, and nothing orders or excludes the
\* callbacks of different URLs: a pending fetch can end, and its callback
\* begin, whatever the other tasks are doing, also while the callback of
\* another URL is running.
C24_NoOrderNoExclusion ==
    f_path = "async" =>
        /\ \A k \in 1..Len(f_urls) :
              /\ f_task[k] \in {"callback", "done"}
                    <=> Cardinality({j \in 1..Len(f_calls) : f_calls[j] = k}) = 1
              /\ f_task[k] \in {"created", "send", "text"}
                    <=> Cardinality({j \in 1..Len(f_calls) : f_calls[j] = k}) = 0
        /\ \A k \in 1..Len(f_urls) :
              /\ (f_pc = "join" /\ f_task[k] = "send") => ENABLED SendEnds(k)
              /\ (f_pc = "join" /\ f_task[k] = "text") => ENABLED TextEnds(k)

\* The callbacks were invoked in the reverse of the order of urls, and all
\* of them are running at once.
C24_Witness ==
    /\ f_path = "async" /\ Len(f_urls) = MaxUrls
    /\ f_calls = [j \in 1..MaxUrls |-> MaxUrls + 1 - j]
    /\ \A k \in 1..MaxUrls : f_task[k] = "callback"


(***************************************************************************)
(* The line-level filter on its own: remove_lines_metadata_or_navigation   *)
(* applied to a list of lines.                                             *)
(***************************************************************************)
MaxLines == 2

Line_blank == <<>>
Line_spaces == <<" ", " ">>
Line_hash == <<"#">>
Line_header_at == <<"#", " ", "a", "@", "b">>
Line_header_menu == <<"#", "#", " ", "m", "e", "n", "u">>
Line_a == <<"a">>
Line_ok == <<"o", "k">>
Line_Rust == <<"R", "u", "s", "t">>
Line_cafe == <<"c", "a", "f", "e_acute">>
Line_alpha == <<" ", "a", "l", "p", "h", "a">>
Line_two_words == <<"a", " ", "b", " ", "c">>
Line_menu == <<"M", "e", "n", "u">>
Line_subscribe == <<"s", "u", "b", "s", "c", "r", "i", "b", "e">>
Line_footer == <<"f", "o", "o", "t", "e", "r">>
Line_mail == <<"a", "@", "b", ".", "c">>
Line_http == <<"h", "t", "t", "p", ":">>

SampleLines ==
    {Line_blank, Line_spaces, Line_hash, Line_header_at, Line_header_menu, Line_a,
     Line_ok, Line_Rust, Line_cafe, Line_alpha, Line_two_words,
     Line_menu, Line_subscribe, Line_footer, Line_mail, Line_http}

LInit == l_lines \in SeqUpTo(SampleLines, MaxLines) /\ l_kept = <<>> /\ l_pc = "lines"

FilterLines ==
    /\ l_pc = "lines"
    /\ l_kept' = remove_lines_metadata_or_navigation(l_lines)
    /\ l_pc' = "kept"
    /\ UNCHANGED l_lines

LineNext == FilterLines /\ UNCHANGED <<hvars, uvars, mvars, dvars, cvars, fvars, avars>>

LineInit == LInit /\ HIdle /\ UIdle /\ MIdle /\ DIdle /\ CIdle /\ FIdle /\ AIdle

LineSpec == LineInit /\ [][LineNext]_vars

IsHeaderLine(line) == StartsAt(Trim(line), 1, <<"#">>)
IsBlankLine(line) == Trim(line) = <<>>
IsKept(line) == \E j \in 1..Len(l_kept) : l_kept[j] = line

\* C25: a non-blank, non-header line is dropped for its length only when
\* it has fewer than 2 characters: a line of 2 or more characters that is
\* not a single-word navigation term, does not start with http, contains
\* no '@' and is none of menu, navigation, nav, footer, header, sidebar is
\* kept.
C25_TwoCharactersSuffice ==
    l_pc = "kept" =>
        \A i \in 1..Len(l_lines) :
            LET line == l_lines[i]
                trimmed == Trim(line)
                lower == to_lowercase(trimmed)
            IN  ( /\ ~IsBlankLine(line) /\ ~IsHeaderLine(line)
                  /\ Len(trimmed) >= 2
                  /\ ~(~Contains(trimmed, " ") /\ lower \in navigation_terms)
                  /\ ~StartsAt(lower, 1, <<"h", "t", "t", "p">>)
                  /\ ~Contains(lower, "@")
                  /\ lower \notin MetadataLines )
                => IsKept(line)

\* The input lines that are headers or blank, in their order.
RECURSIVE HeadersAndBlanks(_)
HeadersAndBlanks(ls) ==
    IF ls = <<>> THEN <<>>
    ELSE (IF IsHeaderLine(Head(ls)) \/ IsBlankLine(Head(ls)) THEN <<Head(ls)>> ELSE <<>>)
         \o HeadersAndBlanks(Tail(ls))

\* a is b with some elements left out: same elements, same order, unedited.
RECURSIVE IsSubsequence(_, _)
IsSubsequence(a, b) ==
    IF a = <<>> THEN TRUE
    ELSE IF b = <<>> THEN FALSE
    ELSE IF Head(a) = Head(b) THEN IsSubsequence(Tail(a), Tail(b))
    ELSE IsSubsequence(a, Tail(b))

\* C26: the header rule and the blank-line rule come before every drop
\* rule: a line whose trimmed text starts with '#' is kept whatever its
\* length and whatever follows the '#', a blank or whitespace-only line is
\* kept, and the lines kept are lines of the input, unedited and in the
\* order of the input.
C26_HeadersAndBlanksFirst ==
    l_pc = "kept" =>
        /\ IsSubsequence(HeadersAndBlanks(l_lines), l_kept)
        /\ IsSubsequence(l_kept, l_lines)

\* A one-character header, a header with '@' or a navigation term, or a
\* whitespace-only line, next to a line that was dropped.
C26_Witness ==
    /\ l_pc = "kept" /\ Len(l_lines) = 2 /\ Len(l_kept) = 1
    /\ l_kept[1] \in {Line_hash, Line_header_at, Line_header_menu, Line_spaces}


(***************************************************************************)
(* clear_content (content_processor.rs) on its own.  An HTML string is a   *)
(* sequence of tokens: start tags, end tags and texts.  The fragments      *)
(* handed to it are serialisations of element trees (element.html() of     *)
(* the selected element); a text keeps the index of its node, so that it   *)
(* can be followed through the steps.  The sample fragments have no        *)
(* script, style, media, div, section, a or span elements: the patterns    *)
(* for those match nothing in them.                                        *)
(***************************************************************************)
MaxFragmentNodes == 3

Token(t, tag, class, id) == [t |-> t, tag |-> tag, role |-> "none", class |-> class, id |-> id]
StartTag(tag, class, id) == Token("open", tag, class, id)
EndTag(tag) == Token("close", tag, "none", 0)
TextNode(id) == Token("text", "#text", "none", id)
Newline == Token("text", "#newline", "none", 0)

\* The kinds of node of the sample fragments: a text, <nav>, <article>,
\* <main class="content">, <p>, <h1>.
FragmentKinds ==
    { [tag |-> "#text", class |-> "none"], [tag |-> "nav", class |-> "none"],
      [tag |-> "article", class |-> "none"], [tag |-> "main", class |-> "content"],
      [tag |-> "p", class |-> "none"], [tag |-> "h1", class |-> "none"] }

NodeOf(kind, id, parent) ==
    [tok |-> IF kind.tag = "#text" THEN TextNode(id) ELSE StartTag(kind.tag, kind.class, id),
     parent |-> parent]

\* What the parser leaves inside what: a text has no children, <p> and
\* <h1> hold texts only here.
CanContain(ptok, ctok) ==
    CASE ptok.t = "text" -> FALSE
      [] ptok.tag \in {"p", "h1"} -> ctok.t = "text"
      [] OTHER -> TRUE

\* Element trees of at most n nodes, as node sequences in document order;
\* parent 0 is the top of the fragment.
\* The elements still open after the last node of ns: the last node and
\* its ancestors, when they are elements.
OpenAtEnd(ns) ==
    {a \in 1..Len(ns) : ns[a].tok.t = "open" /\ IsAncestorOrSelf(ns, a, Len(ns))}

Extensions(ns) ==
    { Append(ns, NodeOf(kind, Len(ns) + 1, q)) :
        kind \in FragmentKinds, q \in {0} \cup OpenAtEnd(ns) }

RECURSIVE FragmentTrees(_)
FragmentTrees(n) ==
    IF n = 0 THEN {<<>>}
    ELSE LET shorter == FragmentTrees(n - 1)
         IN  shorter \cup UNION {Extensions(ns) : ns \in {m \in shorter : Len(m) = n - 1}}

FragmentOk(ns) ==
    \A j \in 1..Len(ns) :
        ns[j].parent # 0 => CanContain(ns[ns[j].parent].tok, ns[j].tok)

\* element.html(): the start tag, the children in order, the end tag.
RECURSIVE Serialize(_, _)
Serialize(ns, j) ==
    IF ns[j].tok.t = "text" THEN <<ns[j].tok>>
    ELSE <<ns[j].tok>>
         \o Concat([c \in 1..Len(ns) |-> IF ns[c].parent = j THEN Serialize(ns, c) ELSE <<>>])
         \o <<EndTag(ns[j].tok.tag)>>

SerializeAll(ns) ==
    Concat([c \in 1..Len(ns) |-> IF ns[c].parent = 0 THEN Serialize(ns, c) ELSE <<>>])

Fragments == {ns \in FragmentTrees(MaxFragmentNodes) : FragmentOk(ns)}

\* (?i)<tag[^>]*>[\s\S]*?</tag> at position i: from a start tag to the
\* first end tag of that name after it; 0 when there is no match at i.
TagBlockEnd(s, i, tag) ==
    IF s[i].t = "open" /\ s[i].tag = tag
    THEN LET ends == {j \in (i + 1)..Len(s) : s[j].t = "close" /\ s[j].tag = tag}
         IN  IF ends = {} THEN 0 ELSE CHOOSE j \in ends : \A m \in ends : j <= m
    ELSE 0

NavEnd(s, i) == TagBlockEnd(s, i, "nav")
HeaderEnd(s, i) == TagBlockEnd(s, i, "header")
FooterEnd(s, i) == TagBlockEnd(s, i, "footer")
AsideEnd(s, i) == TagBlockEnd(s, i, "aside")

\* for pattern in unwanted_elements(): the patterns applied one after the
\* other, each to the result of the one before.
remove_unwanted_elements(content_html) ==
    LET no_nav == replace_all(content_html, NavEnd, RepEmpty)
        no_header == replace_all(no_nav, HeaderEnd, RepEmpty)
        no_footer == replace_all(no_header, FooterEnd, RepEmpty)
    IN  replace_all(no_footer, AsideEnd, RepEmpty)

\* Html::parse_document on the wrapped fragment: a start tag opens a child
\* of the innermost open element, an end tag closes the innermost open
\* element of its name and everything inside it, and is ignored when no
\* such element is open.
RECURSIVE ParseFrom(_, _, _, _)
ParseFrom(toks, i, stack, nodes) ==
    IF i > Len(toks) THEN nodes
    ELSE LET tk == toks[i]
             top == IF stack = <<>> THEN 0 ELSE stack[Len(stack)]
         IN  IF tk.t = "open"
             THEN ParseFrom(toks, i + 1, Append(stack, Len(nodes) + 1),
                            Append(nodes, [tok |-> tk, parent |-> top]))
             ELSE IF tk.t = "text"
             THEN ParseFrom(toks, i + 1, stack, Append(nodes, [tok |-> tk, parent |-> top]))
             ELSE LET open == {d \in 1..Len(stack) : nodes[stack[d]].tok.tag = tk.tag}
                  IN  IF open = {} THEN ParseFrom(toks, i + 1, stack, nodes)
                      ELSE ParseFrom(toks, i + 1,
                                     SubSeq(stack, 1, (CHOOSE d \in open : \A m \in open : m <= d) - 1),
                                     nodes)

parse_document(html) == ParseFrom(html, 1, <<>>, <<>>)

content_selectors ==
    <<"article", "main", "[role='main']", ".content", ".article", ".post", ".entry">>
text_selectors == <<"h1, h2, h3, h4, h5, h6", "p", "ul, ol", "blockquote", "pre", "table">>

select(document, sel) ==
    {j \in 1..Len(document) :
        document[j].tok.t = "open" /\ SelectorMatches(sel, document[j].tok)}

push_elements_document_order_mut(document, selectors) ==
    Concat([j \in 1..Len(document) |->
               IF \E k \in 1..Len(selectors) : j \in select(document, selectors[k])
               THEN Serialize(document, j) \o <<Newline>> ELSE <<>>])

\* for selector_str in selectors { for element in document.select(..) {
\*     relevant_html.push_str(&element.html()); relevant_html.push('\n') } }
push_elements(document, selectors) ==
    Concat([k \in 1..Len(selectors) |->
        Concat([j \in 1..Len(document) |->
                   IF j \in select(document, selectors[k])
                   THEN Serialize(document, j) \o <<Newline>> ELSE <<>>])])

\* relevant_html.trim().is_empty()
TrimIsEmpty(html) == \A k \in 1..Len(html) : html[k] = Newline

\* (?i)<a[^>]*class=[^>]*(?:avatar|wp-image|button|btn)[^>]*>[\s\S]*?</a>
\* and the same for <span>; the third pattern is for <div style=...>.
AnchorButtonEnd(s, i) ==
    IF s[i].class \in {"avatar", "wp-image", "button", "btn"} THEN TagBlockEnd(s, i, "a") ELSE 0
SpanSocialEnd(s, i) ==
    IF s[i].class \in {"avatar", "wp-image", "social", "share"}
    THEN TagBlockEnd(s, i, "span") ELSE 0

additional_cleanup(html) ==
    replace_all(replace_all(html, AnchorButtonEnd, RepEmpty), SpanSocialEnd, RepEmpty)

select_relevant_original_mut(content_html, cleaned_body) ==
    LET cleaned_document == parse_document(cleaned_body)
        containers == push_elements(cleaned_document, content_selectors)
        found_main_content == containers # <<>>
        relevant_html == IF found_main_content THEN containers
                         ELSE push_elements(cleaned_document, text_selectors)
    IN  additional_cleanup(IF TrimIsEmpty(relevant_html) THEN content_html
                           ELSE relevant_html)

\* The second half of clear_content: parse the cleaned fragment, collect
\* the content containers, else the text elements, else fall back to the
\* cleaned fragment; then the additional clean-up.
select_relevant(content_html, cleaned_body) ==
    LET cleaned_document == parse_document(cleaned_body)
        containers == push_elements(cleaned_document, content_selectors)
        found_main_content == containers # <<>>
        relevant_html == IF found_main_content THEN containers
                         ELSE push_elements(cleaned_document, text_selectors)
    IN  additional_cleanup(IF TrimIsEmpty(relevant_html) THEN cleaned_body
                           ELSE relevant_html)

AInit ==
    /\ a_html \in {SerializeAll(ns) : ns \in Fragments}
    /\ a_cleaned = <<>> /\ a_out = <<>> /\ a_pc = "html"

RemoveUnwanted ==
    /\ a_pc = "html"
    /\ a_cleaned' = remove_unwanted_elements(a_html)
    /\ a_pc' = "cleaned"
    /\ UNCHANGED <<a_html, a_out>>

SelectRelevant ==
    /\ a_pc = "cleaned"
    /\ a_out' = select_relevant(a_html, a_cleaned)
    /\ a_pc' = "out"
    /\ UNCHANGED <<a_html, a_cleaned>>

ClearNext ==
    \/ RemoveUnwanted /\ UNCHANGED <<hvars, uvars, mvars, dvars, cvars, fvars, lvars>>
    \/ SelectRelevant /\ UNCHANGED <<hvars, uvars, mvars, dvars, cvars, fvars, lvars>>

ClearInit == AInit /\ HIdle /\ UIdle /\ MIdle /\ DIdle /\ CIdle /\ FIdle /\ LIdle

ClearSpec == ClearInit /\ [][ClearNext]_vars

ClearTypeOK == a_pc \in {"html", "cleaned", "out"}

\* The identities of the texts of an HTML string.
TextsOf(html) == {html[k].id : k \in {m \in 1..Len(html) : html[m].t = "text" /\ html[m].tag = "#text"}}

\* The elements of html that are not inside another element of it, in
\* order: the start tags met at depth 0.
Depth(html, i) ==
    Cardinality({m \in 1..(i - 1) : html[m].t = "open"})
    - Cardinality({m \in 1..(i - 1) : html[m].t = "close"})
TopLevelElements(html) ==
    SelectSeq([i \in 1..Len(html) |-> IF html[i].t = "open" /\ Depth(html, i) = 0
                                      THEN html[i].id ELSE 0],
              LAMBDA x : x # 0)

SeqToSet(s) == {s[k] : k \in 1..Len(s)}

\* The elements of the cleaned fragment that some selector of the list matches.
MatchedBy(selectors) ==
    LET document == parse_document(a_cleaned)
    IN  {document[j].tok.id : j \in UNION {select(document, selectors[k]) : k \in 1..Len(selectors)}}

\* The texts of the input that lie in a nav element with no nav element
\* inside it or around it.
TextsInNav ==
    LET tree == parse_document(a_html)
        navs == {a \in 1..Len(tree) : tree[a].tok.t = "open" /\ tree[a].tok.tag = "nav"}
        alone == {a \in navs : \A b \in navs \ {a} :
                     ~IsAncestorOrSelf(tree, a, b) /\ ~IsAncestorOrSelf(tree, b, a)}
    IN  {tree[j].tok.id : j \in {m \in 1..Len(tree) :
            /\ tree[m].tok.tag = "#text"
            /\ \E a \in alone : IsAncestorOrSelf(tree, a, m)}}

RemovedInStep3 == TextsOf(a_html) \ TextsOf(a_cleaned)

RECURSIVE MatchesInListOrder(_, _, _)
MatchesInListOrder(document, selectors, k) ==
    IF k > Len(selectors) THEN <<>>
    ELSE SelectSeq([j \in 1..Len(document) |->
                       IF j \in select(document, selectors[k])
                       THEN document[j].tok.id ELSE 0],
                   LAMBDA x : x # 0)
         \o MatchesInListOrder(document, selectors, k + 1)

Occurrences(html, id) ==
    Cardinality({m \in 1..Len(html) : html[m].t = "open" /\ html[m].id = id})

\* How many matched elements of the list hold element j of the document,
\* each counted once per selector that matches it.
TimesMatchedAround(document, selectors, j) ==
    Cardinality({p \in (1..Len(selectors)) \X (1..Len(document)) :
                    /\ p[2] \in select(document, selectors[p[1]])
                    /\ IsAncestorOrSelf(document, p[2], j)})

UsedSelectors ==
    IF MatchedBy(content_selectors) # {} THEN content_selectors ELSE text_selectors

\* C30: when a selector matches, the fragment of the second selection is
\* the concatenation, selector by selector in list order, of all elements
\* matching each selector, and each element of the cleaned fragment is
\* emitted once for every matched element that is it or holds it, counted
\* per matching selector.
C30_ConcatenationBySelector ==
    (a_pc = "out" /\ MatchedBy(UsedSelectors) # {}) =>
        LET document == parse_document(a_cleaned) IN
        /\ TopLevelElements(a_out) = MatchesInListOrder(document, UsedSelectors, 1)
        /\ \A j \in 1..Len(document) :
               document[j].tok.t = "open" =>
                   Occurrences(a_out, document[j].tok.id)
                       = TimesMatchedAround(document, UsedSelectors, j)

\* Two top-level elements of the result are out of document order, and an
\* element matched by two selectors, or nested in a matched element, is in
\* the result more than once.
C30_Witness ==
    /\ a_pc = "out"
    /\ \E i, j \in 1..Len(TopLevelElements(a_out)) :
           i < j /\ TopLevelElements(a_out)[i] > TopLevelElements(a_out)[j]
    /\ \E id \in 1..MaxFragmentNodes :
           Occurrences(a_cleaned, id) = 1 /\ Occurrences(a_out, id) > 1

====
